---- MODULE Spec2Model ----
(***************************************************************************)
(* Price list of Al-Waseem-Tobacco: the price calculator (calculateSYP),   *)
(* the grouping / filtering pipeline (groupedData, flattenedData), the     *)
(* export table rows and the product / category routes of the server they  *)
(* read from.                                                              *)
(*                                                                         *)
(* Numbers.  A JavaScript value that the calculator reads is a record      *)
(* [t, n]: t = "num" is a finite number whose value is n / 100 (n counts   *)
(* hundredths, so 4.74 is n = 474 and 11700 is n = 1170000), t = "nan" is  *)
(* NaN, t = "inf" is +Infinity (n = 1) or -Infinity (n = -1),              *)
(* t = "undefined", "null" and "text" are a missing field, a JSON null and *)
(* a non-numeric string.  The arithmetic of the prices is exact decimal    *)
(* arithmetic; the binary rounding error of a double (below 1e-9 for the   *)
(* magnitudes of a price list) is not modelled there.  The page count of   *)
(* the PDF export is rounded as a double rounds it.                        *)
(***************************************************************************)
EXTENDS Integers, Sequences, FiniteSets, TLC

VARIABLES
    calcProduct,        \* the product handed to calculateSYP
    calcRate,           \* globalRate, the state calculateSYP closes over
    calcLocals,         \* the locals and the return value of the last call
    srvCategories,      \* the server's categories table
    srvProducts,        \* the server's products table
    srvSeq,             \* the largest product id the table has handed out
    products,           \* the client's product list (useState)
    categories,         \* the client's category list (useState)
    searchQuery,        \* the search text
    selectedCategory,   \* the category filter: "all" or a category name
    showHidden,         \* whether hidden products are shown
    loading,            \* TRUE until the first fetchData has ended
    columnOrder,        \* the order of the column ids (useState)
    visibleColumns,     \* the ids of the visible columns (useState)
    editingId,          \* the id of the row being edited, or null
    storedOrder,        \* localStorage['columnOrder']
    storedVisible,      \* localStorage['visibleColumns']
    effectsPending,     \* TRUE until the effects of the first render have run
    dbPrior,            \* the products rows before the last write request
    dbRequest,          \* the last write request the server handled
    dbProducts,         \* the products rows, every column, after it
    requests,           \* the requests of the client that have not settled
    edits,              \* the edits committed so far, with their outcome
    isExporting,        \* the busy flag of the export buttons (useState)
    exporting,          \* the exports in flight, oldest first
    canvas,             \* the size in pixels html2canvas renders the table to
    pdfPages,           \* the pages of the last PDF: the offset of the image
    storedRate,         \* localStorage['globalExchangeRate']
    srvRate,            \* the value of the settings row 'global_rate'
    fontSize,           \* the font size of the table (useState)
    editValues,         \* the staging buffer of the row being edited, or null
    contextMenu,        \* the product id of the open context menu, or null
    lastOp,             \* the last step of the editor and the state before it
    rendered            \* FALSE while a state change waits for its render

priceVars == <<calcProduct, calcRate, calcLocals>>
serverVars == <<srvCategories, srvProducts, srvSeq>>
viewVars == <<products, categories, searchQuery, selectedCategory, showHidden, loading>>
columnVars == <<columnOrder, visibleColumns, editingId, storedOrder, storedVisible,
                effectsPending>>
storeVars == <<dbPrior, dbRequest, dbProducts>>
editVars == <<requests, edits>>
exportVars == <<isExporting, exporting, canvas, pdfPages>>
settingsVars == <<storedRate, srvRate, fontSize>>
stagingVars == <<editValues, contextMenu, lastOp>>
vars == <<priceVars, serverVars, viewVars, columnVars, storeVars, editVars,
          exportVars, settingsVars, stagingVars, rendered>>

----------------------------------------------------------------------------
(* JavaScript numbers *)

Num(n) == [t |-> "num", n |-> n]
NaN == [t |-> "nan", n |-> 0]
PosInf == [t |-> "inf", n |-> 1]
Undefined == [t |-> "undefined", n |-> 0]
Null == [t |-> "null", n |-> 0]
Text == [t |-> "text", n |-> 0]
NotCalled == [t |-> "none", n |-> 0]

Sign(n) == IF n > 0 THEN 1 ELSE IF n < 0 THEN -1 ELSE 0

\* Number(v)
ToNumber(v) ==
    CASE v.t = "num" -> v
      [] v.t = "inf" -> v
      [] v.t = "null" -> Num(0)
      [] OTHER -> NaN

\* the truthiness of a number: 0 and NaN are falsy
Truthy(v) == (v.t = "inf") \/ (v.t = "num" /\ v.n # 0)

\* a || b
JsOr(a, b) == IF Truthy(a) THEN a ELSE b

\* the product of two numbers counted in hundredths, one of them whole
MulHundredths(m, n) ==
    IF n % 100 = 0 THEN m * (n \div 100) ELSE (m \div 100) * n

\* a * b, where one finite operand is a whole number
JsMul(a, b) ==
    IF a.t = "nan" \/ b.t = "nan" THEN NaN
    ELSE IF a.t = "inf" \/ b.t = "inf" THEN
        IF Sign(a.n) * Sign(b.n) = 0 THEN NaN
        ELSE [t |-> "inf", n |-> Sign(a.n) * Sign(b.n)]
    ELSE Num(MulHundredths(a.n, b.n))

\* a + b
JsAdd(a, b) ==
    IF a.t = "nan" \/ b.t = "nan" THEN NaN
    ELSE IF a.t = "inf" /\ b.t = "inf" THEN (IF a.n = b.n THEN a ELSE NaN)
    ELSE IF a.t = "inf" THEN a
    ELSE IF b.t = "inf" THEN b
    ELSE Num(a.n + b.n)

\* a mutation of the rounding: the half is rounded down
RoundTo500_halfDown(base) ==
    IF base.t # "num" THEN base
    ELSE Num(((base.n + 24999) \div 50000) * 50000)

\* a mutation of the rounding: rounds to a whole unit, not to 500
RoundTo500_unit(base) ==
    IF base.t # "num" THEN base
    ELSE Num(((base.n + 50) \div 100) * 100)

\* Math.round(base / 500) * 500; Math.round(x) is floor(x + 0.5)
RoundTo500(base) ==
    IF base.t # "num" THEN base
    ELSE Num(((base.n + 25000) \div 50000) * 50000)

\* a mutation of the cost fallback: the legacy cost is never read
EffectiveCost_noLegacy(product) ==
    JsOr(ToNumber(product.cost_usd), Num(0))

\* Number(product.cost_usd) || Number(product.carton_usd) || 0
EffectiveCost(product) ==
    JsOr(JsOr(ToNumber(product.cost_usd), ToNumber(product.carton_usd)), Num(0))

\* calculateSYP, with its locals
calculateSYP(product, globalRate) ==
    LET rate == JsOr(ToNumber(globalRate), Num(0))
        costUsd == EffectiveCost(product)
        profit == JsOr(ToNumber(product.profit_syp), Num(0))
        base == JsAdd(JsMul(costUsd, rate), profit)
        result == RoundTo500(base)
    IN  [t |-> "called", rate |-> rate, costUsd |-> costUsd, profit |-> profit,
         base |-> base, ret |-> IF result.t = "nan" THEN Num(0) ELSE result]

----------------------------------------------------------------------------
(* Strings: a string is a sequence of characters *)

\* String.prototype.toLowerCase, character by character
Lower(c) == CASE c = "A" -> "a" [] c = "B" -> "b" [] OTHER -> c

ToLowerCase(s) == [i \in 1..Len(s) |-> Lower(s[i])]

\* String.prototype.includes
Includes(s, sub) ==
    \E i \in 0..(Len(s) - Len(sub)) : SubSeq(s, i + 1, i + Len(sub)) = sub

\* the code unit of a character
CodeUnit(c) ==
    CASE c = "A" -> 65 [] c = "B" -> 66 [] c = "a" -> 97 [] c = "b" -> 98
      [] c = "l" -> 108 [] OTHER -> 35

RECURSIVE LexCompare(_, _)
\* the sign of the lexicographic comparison of two sequences of integers
LexCompare(s, t) ==
    IF s = <<>> THEN (IF t = <<>> THEN 0 ELSE -1)
    ELSE IF t = <<>> THEN 1
    ELSE IF Head(s) < Head(t) THEN -1
    ELSE IF Head(s) > Head(t) THEN 1
    ELSE LexCompare(Tail(s), Tail(t))

\* a.localeCompare(b): the letters decide first, whatever their case; between
\* strings of the same letters the first difference of case decides, lower
\* case first (the collation of the runtime's default locale)
LocaleCompare(a, b) ==
    LET letters == LexCompare([i \in 1..Len(a) |-> CodeUnit(Lower(a[i]))],
                              [i \in 1..Len(b) |-> CodeUnit(Lower(b[i]))])
    IN  IF letters # 0 THEN letters
        ELSE LexCompare([i \in 1..Len(a) |-> IF a[i] = Lower(a[i]) THEN 0 ELSE 1],
                        [i \in 1..Len(b) |-> IF b[i] = Lower(b[i]) THEN 0 ELSE 1])

\* SQLite's BINARY collation of ORDER BY p.name
BinaryCompare(a, b) ==
    LexCompare([i \in 1..Len(a) |-> CodeUnit(a[i])],
               [i \in 1..Len(b) |-> CodeUnit(b[i])])

----------------------------------------------------------------------------
(* Numeric texts: what the user types into an edit field and what           *)
(* localStorage keeps.  A text is a sequence of characters; the value       *)
(* TextOf(s) is the JavaScript string with these characters.  Nines is one  *)
(* element that stands for a run of 309 digits 9, the shortest run whose    *)
(* value is beyond the largest double.  Exponents, hexadecimal literals and *)
(* white space are not modelled, and a fraction is read to its first two    *)
(* digits (the texts of the inputs have no more).                           *)

Digits == <<"0", "1", "2", "3", "4", "5", "6", "7", "8", "9">>
DigitChars == {Digits[i] : i \in 1..10}
Nines == "9(x309)"

TextOf(s) == [t |-> "string", s |-> s]

IsDigit(c) == c \in DigitChars \cup {Nines}

DigitValue(c) == IF c = Nines THEN 9 ELSE CHOOSE d \in 0..9 : Digits[d + 1] = c

RECURSIVE NatToText(_)
\* the decimal digits of a natural number
NatToText(k) ==
    IF k < 10 THEN <<Digits[k + 1]>>
    ELSE Append(NatToText(k \div 10), Digits[(k % 10) + 1])

RECURSIVE NatValue(_)
\* the natural number a run of digits denotes
NatValue(s) ==
    IF s = <<>> THEN 0
    ELSE 10 * NatValue(SubSeq(s, 1, Len(s) - 1)) + DigitValue(s[Len(s)])

\* Number.prototype.toString() of a number
NumberToString(v) ==
    IF v.t = "nan" THEN <<"N", "a", "N">>
    ELSE IF v.t = "inf"
         THEN (IF v.n < 0 THEN <<"-">> ELSE <<>>)
              \o <<"I", "n", "f", "i", "n", "i", "t", "y">>
    ELSE LET a == IF v.n < 0 THEN -v.n ELSE v.n
             frac == a % 100
         IN  (IF v.n < 0 THEN <<"-">> ELSE <<>>)
             \o NatToText(a \div 100)
             \o (IF frac = 0 THEN <<>>
                 ELSE IF frac % 10 = 0 THEN <<".", Digits[(frac \div 10) + 1]>>
                 ELSE <<".", Digits[(frac \div 10) + 1], Digits[(frac % 10) + 1]>>)

\* the length of the longest run of digits a text starts with
DigitRun(s) ==
    CHOOSE k \in 0..Len(s) :
        /\ \A i \in 1..k : IsDigit(s[i])
        /\ k = Len(s) \/ ~IsDigit(s[k + 1])

\* the longest prefix of a text that is a decimal literal: how many
\* characters it has and the number it denotes (NaN when it has no digit)
NumericPrefix(s) ==
    LET neg == s # <<>> /\ s[1] = "-"
        body == IF neg THEN Tail(s) ELSE s
        intLen == DigitRun(body)
        int == SubSeq(body, 1, intLen)
        rest == SubSeq(body, intLen + 1, Len(body))
        hasDot == rest # <<>> /\ rest[1] = "."
        fracLen == IF hasDot THEN DigitRun(Tail(rest)) ELSE 0
        frac == IF hasDot THEN SubSeq(rest, 2, 1 + fracLen) ELSE <<>>
        hundredths == (IF fracLen >= 1 THEN 10 * DigitValue(frac[1]) ELSE 0)
                      + (IF fracLen >= 2 THEN DigitValue(frac[2]) ELSE 0)
        magnitude == 100 * NatValue(int) + hundredths
    IN  IF intLen = 0 /\ fracLen = 0 THEN [len |-> 0, value |-> NaN]
        ELSE [len |-> (IF neg THEN 1 ELSE 0) + intLen
                      + (IF hasDot THEN 1 + fracLen ELSE 0),
              value |-> IF \E i \in 1..intLen : int[i] = Nines
                        THEN [t |-> "inf", n |-> IF neg THEN -1 ELSE 1]
                        ELSE Num(IF neg THEN -magnitude ELSE magnitude)]

\* parseFloat(string)
ParseFloat(s) == NumericPrefix(s).value

\* Number(string): the whole text has to be a literal, the empty text is 0
StringToNumber(s) ==
    IF s = <<>> THEN Num(0)
    ELSE IF NumericPrefix(s).len = Len(s) THEN NumericPrefix(s).value
    ELSE NaN

\* .replace(/,/g, '.')
CommasToDots(s) == [i \in 1..Len(s) |-> IF s[i] = "," THEN "." ELSE s[i]]

\* .replace(/[^0-9.]/g, '')
KeepNumeric(s) == SelectSeq(s, LAMBDA c : IsDigit(c) \/ c = ".")

\* parseNumber of the client: of null, undefined, a number or a string
parseNumber(val) ==
    IF val.t \in {"null", "undefined"} THEN Num(0)
    ELSE IF val.t \in {"num", "nan", "inf"} THEN val
    ELSE IF val.s = <<>> THEN Num(0)
    ELSE LET num == ParseFloat(KeepNumeric(CommasToDots(val.s)))
         IN  IF num.t = "nan" THEN Num(0) ELSE num

----------------------------------------------------------------------------
(* Sorting: Array.prototype.sort and ORDER BY, both stable here *)

\* a mutation of the product order: the name is not compared
ProductCompare_noName(a, b) == a.category_sort_order - b.category_sort_order

\* the comparator of groupedData: category sort order, then name
ProductCompare(a, b) ==
    LET catComp == a.category_sort_order - b.category_sort_order
    IN  IF catComp # 0 THEN catComp ELSE LocaleCompare(a.name, b.name)

\* the comparator of categories.sort(...)
CategoryCompare(a, b) == a.sort_order - b.sort_order

\* the comparator of catProducts.sort(...) in the export table
ExportCompare(a, b) == LocaleCompare(a.name, b.name)

\* ORDER BY c.sort_order ASC, p.name ASC
SqlProductCompare(a, b) ==
    IF a.category_sort_order # b.category_sort_order
    THEN a.category_sort_order - b.category_sort_order
    ELSE BinaryCompare(a.name, b.name)

Compare(by, a, b) ==
    CASE by = "groupedData" -> ProductCompare(a, b)
      [] by = "categories" -> CategoryCompare(a, b)
      [] by = "export" -> ExportCompare(a, b)
      [] by = "sqlProducts" -> SqlProductCompare(a, b)

RECURSIVE Insert(_, _, _)
\* x put into the sorted s, after every element that does not come after it
Insert(by, x, s) ==
    IF s = <<>> THEN <<x>>
    ELSE IF Compare(by, x, Head(s)) < 0 THEN <<x>> \o s
    ELSE <<Head(s)>> \o Insert(by, x, Tail(s))

RECURSIVE Sort(_, _)
\* the stable sort of s by the comparator named by
Sort(by, s) ==
    IF s = <<>> THEN <<>>
    ELSE Insert(by, s[Len(s)], Sort(by, SubSeq(s, 1, Len(s) - 1)))

RECURSIVE RowsById(_)
\* the rows of a table in rowid order
RowsById(table) ==
    IF table = {} THEN <<>>
    ELSE LET first == CHOOSE r \in table : \A o \in table : r.id <= o.id
         IN  <<first>> \o RowsById(table \ {first})

----------------------------------------------------------------------------
(* The server: the categories and products routes *)

\* a NULL category_id
NULL == 0

\* GET /api/categories
GetCategories(cats) == Sort("categories", RowsById(cats))

\* FROM products p JOIN categories c ON p.category_id = c.id
JoinedRows(prods, cats) ==
    { [id |-> p.id, category_id |-> p.category_id, name |-> p.name,
       is_hidden |-> p.is_hidden,
       category_name |-> c.name, category_sort_order |-> c.sort_order] :
      <<p, c>> \in { pc \in prods \X cats : pc[1].category_id = pc[2].id } }

\* GET /api/products
GetProducts(prods, cats) == Sort("sqlProducts", RowsById(JoinedRows(prods, cats)))

\* POST /api/products: the row inserted (is_hidden 0)
InsertedProduct(id, category_id, name) ==
    [id |-> id, category_id |-> category_id, name |-> name, is_hidden |-> 0]

\* PUT /api/products/:id with { is_hidden }
UpdateHidden(prods, id, is_hidden) ==
    { IF p.id = id THEN [p EXCEPT !.is_hidden = is_hidden] ELSE p : p \in prods }

\* POST /api/categories/reorder: every category gets its index as sort_order
Reorder(cats, newCategories) ==
    { IF \E i \in 1..Len(newCategories) : newCategories[i].id = c.id
      THEN [c EXCEPT !.sort_order =
                (CHOOSE i \in 1..Len(newCategories) : newCategories[i].id = c.id) - 1]
      ELSE c : c \in cats }

----------------------------------------------------------------------------
(* The client: groupedData, flattenedData and the export table *)

\* the value "all" of the category filter
All == <<"a", "l", "l">>

\* the label of the bucket of products without category name
Uncategorized == <<"#">>

\* a mutation of the filter: the name and the category name must both match
FilterMatch_both(p, query, selected, hiddenShown) ==
    /\ Includes(ToLowerCase(p.name), ToLowerCase(query))
    /\ Includes(ToLowerCase(p.category_name), ToLowerCase(query))
    /\ (selected = All \/ p.category_name = selected)
    /\ (hiddenShown \/ p.is_hidden = 0)

\* the predicate of sorted.filter(...)
FilterMatch(p, query, selected, hiddenShown) ==
    LET nameMatch == Includes(ToLowerCase(p.name), ToLowerCase(query))
        catMatch == Includes(ToLowerCase(p.category_name), ToLowerCase(query))
        categoryFilterMatch == selected = All \/ p.category_name = selected
        visibilityMatch == hiddenShown \/ p.is_hidden = 0
    IN  (nameMatch \/ catMatch) /\ categoryFilterMatch /\ visibilityMatch

\* p.category_name || the label
GroupKey(p) == IF p.category_name = <<>> THEN Uncategorized ELSE p.category_name

\* groups[cat], the empty sequence where groups has no such key
Group(filtered, cat) == SelectSeq(filtered, LAMBDA p : GroupKey(p) = cat)

\* a mutation of the category order: the bucket without category is left out
OrderedCategories_noBucket(cats, filtered) ==
    SelectSeq([i \in 1..Len(Sort("categories", cats)) |-> Sort("categories", cats)[i].name],
              LAMBDA name : Group(filtered, name) # <<>>)

\* categories.sort(...).map(c => c.name).filter(name => groups[name]), then
\* the bucket without category if it has members and is not yet listed
OrderedCategories(cats, filtered) ==
    LET sortedCats == Sort("categories", cats)
        named == SelectSeq([i \in 1..Len(sortedCats) |-> sortedCats[i].name],
                           LAMBDA name : Group(filtered, name) # <<>>)
    IN  IF /\ Group(filtered, Uncategorized) # <<>>
           /\ \A i \in 1..Len(named) : named[i] # Uncategorized
        THEN Append(named, Uncategorized)
        ELSE named

RECURSIVE FlatMapGroups(_, _)
\* orderedCategories.flatMap(cat => groups[cat])
FlatMapGroups(orderedCategories, filtered) ==
    IF orderedCategories = <<>> THEN <<>>
    ELSE Group(filtered, Head(orderedCategories))
            \o FlatMapGroups(Tail(orderedCategories), filtered)

\* groupedData
groupedData(prods, cats, query, selected, hiddenShown) ==
    LET sorted == Sort("groupedData", prods)
        filtered == SelectSeq(sorted,
                        LAMBDA p : FilterMatch(p, query, selected, hiddenShown))
        orderedCategories == OrderedCategories(cats, filtered)
    IN  [categories |-> orderedCategories,
         products |-> FlatMapGroups(orderedCategories, filtered),
         counts |-> [i \in 1..Len(orderedCategories) |->
                        Len(Group(filtered, orderedCategories[i]))]]

NoProduct == [id |-> 0, category_id |-> 0, name |-> <<>>, is_hidden |-> 0,
              category_name |-> <<>>, category_sort_order |-> 0]

CategoryRow(name) == [type |-> "category", name |-> name, product |-> NoProduct]
ProductRow(p) == [type |-> "product", name |-> <<>>, product |-> p]

RECURSIVE FlattenFrom(_, _)
\* the loop of flattenedData over the table rows, lastCategory carried along
FlattenFrom(tableRows, lastCategory) ==
    IF tableRows = <<>> THEN <<>>
    ELSE LET product == Head(tableRows)
             catName == GroupKey(product)
         IN  (IF catName # lastCategory THEN <<CategoryRow(catName)>> ELSE <<>>)
                \o <<ProductRow(product)>>
                \o FlattenFrom(Tail(tableRows), catName)

\* flattenedData
flattenedData(tableRows) == FlattenFrom(tableRows, <<>>)

\* a mutation of the export rows: hidden products are exported too
ExportGroup_all(cat, prods, hiddenShown) ==
    SelectSeq(prods, LAMBDA p : p.category_id = cat.id)

\* products.filter(p => p.category_id === cat.id && (showHidden || !p.is_hidden))
ExportGroup(cat, prods, hiddenShown) ==
    SelectSeq(prods, LAMBDA p : p.category_id = cat.id /\ (hiddenShown \/ p.is_hidden = 0))

RECURSIVE ExportFrom(_, _, _)
\* the rows of the export table, category after category
ExportFrom(sortedCats, prods, hiddenShown) ==
    IF sortedCats = <<>> THEN <<>>
    ELSE LET cat == Head(sortedCats)
             catProducts == ExportGroup(cat, prods, hiddenShown)
             sortedProducts == Sort("export", catProducts)
         IN  (IF catProducts = <<>> THEN <<>>
              ELSE <<CategoryRow(cat.name)>>
                     \o [i \in 1..Len(sortedProducts) |-> ProductRow(sortedProducts[i])])
                \o ExportFrom(Tail(sortedCats), prods, hiddenShown)

\* the tbody of the export container
exportRows(prods, cats, hiddenShown) ==
    ExportFrom(Sort("categories", cats), prods, hiddenShown)

\* what the render leaves in the category list: both groupedData and the
\* export table sort the array of the state in place
RenderedCategories(cats) == Sort("categories", cats)

\* the live view of the current state
View == flattenedData(groupedData(products, categories, searchQuery,
                                  selectedCategory, showHidden).products)

\* the export rows of the current state
Export == exportRows(products, categories, showHidden)

----------------------------------------------------------------------------
(* The column registry: order, visibility and their persistence *)

DEFAULT_COLUMNS == <<"name", "syp_final", "cost_usd", "profit_syp",
                     "wholesale_carton_usd", "lsg", "case_usd", "wholesale_case_usd">>
DEFAULT_VISIBLE == <<"name", "syp_final", "cost_usd", "profit_syp",
                     "wholesale_carton_usd", "lsg">>

\* the ids of the column definitions (columns)
ColumnIds == {"name", "syp_final", "cost_usd", "profit_syp", "wholesale_carton_usd",
              "case_usd", "wholesale_case_usd", "lsg", "actions"}

\* the ids the settings dialog has a row for (colInfo)
ColInfoIds == {"name", "syp_final", "cost_usd", "profit_syp", "wholesale_carton_usd",
               "lsg", "case_usd", "wholesale_case_usd"}

\* a value of localStorage: no item, the JSON text of a list of ids, or a
\* text that JSON.parse or the list operations applied to it throw on
Absent == [t |-> "absent", v |-> <<>>]
Malformed == [t |-> "malformed", v |-> <<>>]
Json(list) == [t |-> "json", v |-> list]

\* Array.prototype.includes
InList(list, id) == \E i \in 1..Len(list) : list[i] = id

RECURSIVE MergeColumns(_, _)
\* DEFAULT_COLUMNS.forEach(col => { if (!merged.includes(col)) merged.push(col) })
MergeColumns(merged, defaults) ==
    IF defaults = <<>> THEN merged
    ELSE MergeColumns(IF InList(merged, Head(defaults)) THEN merged
                      ELSE Append(merged, Head(defaults)),
                      Tail(defaults))

\* a mutation of the initializer of columnOrder: a missing id is put in front
ColumnOrderInit_front(saved) ==
    IF saved.t = "absent" THEN DEFAULT_COLUMNS
    ELSE IF saved.t = "malformed" THEN DEFAULT_COLUMNS
    ELSE SelectSeq(DEFAULT_COLUMNS, LAMBDA col : ~InList(saved.v, col)) \o saved.v

\* the initializer of columnOrder
ColumnOrderInit(saved) ==
    IF saved.t = "absent" THEN DEFAULT_COLUMNS
    ELSE IF saved.t = "malformed" THEN DEFAULT_COLUMNS
    ELSE MergeColumns(saved.v, DEFAULT_COLUMNS)

\* a mutation of the initializer of visibleColumns: a list without "name" is kept
VisibleColumnsInit_anyList(saved) ==
    IF saved.t = "absent" THEN DEFAULT_VISIBLE
    ELSE IF saved.t = "malformed" THEN DEFAULT_VISIBLE
    ELSE IF Len(saved.v) = 0 THEN DEFAULT_VISIBLE
    ELSE saved.v

\* the initializer of visibleColumns
VisibleColumnsInit(saved) ==
    IF saved.t = "absent" THEN DEFAULT_VISIBLE
    ELSE IF saved.t = "malformed" THEN DEFAULT_VISIBLE
    ELSE IF Len(saved.v) = 0 \/ ~InList(saved.v, "name") THEN DEFAULT_VISIBLE
    ELSE saved.v

\* a mutation of filteredColumns: the actions column only if it is visible
filteredColumns_visibleActions(order, visible, editing) ==
    LET orderedCols == SelectSeq(order, LAMBDA id : InList(visible, id) /\ id \in ColumnIds)
    IN  IF editing # 0 /\ InList(visible, "actions")
        THEN Append(orderedCols, "actions") ELSE orderedCols

\* filteredColumns, as the ids of its columns
filteredColumns(order, visible, editing) ==
    LET orderedCols == SelectSeq(order, LAMBDA id : InList(visible, id) /\ id \in ColumnIds)
    IN  IF editing # 0 THEN Append(orderedCols, "actions") ELSE orderedCols

\* the toggle of a column: prev.includes(colId) ? prev.filter(...) : [...prev, colId]
ToggleColumn(prev, colId) ==
    IF InList(prev, colId) THEN SelectSeq(prev, LAMBDA id : id # colId)
    ELSE Append(prev, colId)

\* newOrder with the entries at i and j exchanged
SwapColumns(order, i, j) ==
    [k \in 1..Len(order) |-> IF k = i THEN order[j] ELSE IF k = j THEN order[i] ELSE order[k]]

\* the columns of the rendered table
DisplayedColumns == filteredColumns(columnOrder, visibleColumns, editingId)

\* the registry of a mounted component that found nothing persisted
IdleColumns ==
    /\ columnOrder = DEFAULT_COLUMNS
    /\ visibleColumns = DEFAULT_VISIBLE
    /\ editingId = 0
    /\ storedOrder = Json(DEFAULT_COLUMNS)
    /\ storedVisible = Json(DEFAULT_VISIBLE)
    /\ effectsPending = FALSE

----------------------------------------------------------------------------
(* The server: the rows of products with every column, POST and PUT *)

\* the whole number k, and the k-th string
Whole(k) == Num(100 * k)
Str(k) == [t |-> "text", n |-> k]

\* the value bound to a ? of a statement: undefined is bound as NULL
Bind(v) == IF v.t = "undefined" THEN Null ELSE v

\* COALESCE(a, b)
Coalesce(a, b) == IF a.t = "null" THEN b ELSE a

\* a request body without any field
EmptyBody ==
    [name |-> Undefined, cost_usd |-> Undefined, profit_syp |-> Undefined,
     wholesale_profit_syp |-> Undefined, carton_usd |-> Undefined,
     wholesale_carton_usd |-> Undefined, category_id |-> Undefined,
     is_hidden |-> Undefined]

NoRequest == [op |-> "none", id |-> 0, body |-> EmptyBody]

\* the UPDATE of PUT /api/products/:id, on the row it matches
PutRow(row, body) ==
    LET effectiveCartonUsd ==
            IF body.cost_usd.t # "undefined" THEN body.cost_usd ELSE body.carton_usd
    IN  [id |-> row.id,
         name |-> Coalesce(Bind(body.name), row.name),
         cost_usd |-> Coalesce(Bind(body.cost_usd), row.cost_usd),
         profit_syp |-> Coalesce(Bind(body.profit_syp), row.profit_syp),
         wholesale_profit_syp |->
            Coalesce(Bind(body.wholesale_profit_syp), row.wholesale_profit_syp),
         carton_usd |-> Coalesce(Bind(effectiveCartonUsd), Bind(body.carton_usd)),
         wholesale_carton_usd |->
            Coalesce(Bind(body.wholesale_carton_usd), row.wholesale_carton_usd),
         category_id |-> Coalesce(Bind(body.category_id), row.category_id),
         is_hidden |-> Coalesce(Bind(body.is_hidden), row.is_hidden)]

\* PUT /api/products/:id: ... WHERE id = ?
PutProduct(rows, id, body) ==
    { IF row.id = id THEN PutRow(row, body) ELSE row : row \in rows }

\* the INSERT of POST /api/products; amounts in hundredths, so 500 is 50000
PostRow(id, body) ==
    LET effectiveCost == JsOr(body.cost_usd, Num(0))
        effectiveCarton == JsOr(JsOr(body.carton_usd, effectiveCost), Num(0))
    IN  [id |-> id,
         name |-> Bind(body.name),
         cost_usd |-> effectiveCost,
         profit_syp |-> JsOr(body.profit_syp, Num(50000)),
         wholesale_profit_syp |-> JsOr(body.wholesale_profit_syp, Num(25000)),
         carton_usd |-> effectiveCarton,
         wholesale_carton_usd |-> JsOr(body.wholesale_carton_usd, Num(0)),
         category_id |-> Bind(body.category_id),
         is_hidden |-> Whole(0)]

\* the id AUTOINCREMENT gives the next row
NextRowId(rows) == 1 + Cardinality(rows)

\* the store before any write request
IdleStore ==
    /\ dbPrior = {}
    /\ dbRequest = NoRequest
    /\ dbProducts = {}

\* no request in flight, no edit committed
IdleEdits ==
    /\ requests = {}
    /\ edits = <<>>

----------------------------------------------------------------------------
(* The staging buffer of the editor, and the states nothing has touched *)

\* editValues of a component that edits no row
NoValues == [name |-> Null, cost_usd |-> <<>>, profit_syp |-> <<>>,
             wholesale_carton_usd |-> <<>>, set |-> FALSE]

\* a column of a product row; the rows of a specification that follows the
\* names only carry no amounts, and their amounts read as 0
Column(product, field) ==
    IF field \in DOMAIN product THEN product[field] ELSE Num(0)

\* a mutation of the buffer: the cost field never shows the legacy cost
StagingBuffer_noLegacy(product) ==
    [name |-> product.name,
     cost_usd |-> NumberToString(JsOr(Column(product, "cost_usd"), Num(0))),
     profit_syp |-> NumberToString(Column(product, "profit_syp")),
     wholesale_carton_usd |-> NumberToString(Column(product, "wholesale_carton_usd")),
     set |-> TRUE]

\* the buffer setEditValues receives when a row is opened for editing: the
\* name, and the texts of the cost (the legacy cost when the cost is 0 or
\* missing), of the profit and of the wholesale cost
StagingBuffer(product) ==
    [name |-> product.name,
     cost_usd |-> NumberToString(JsOr(JsOr(Column(product, "cost_usd"),
                                           Column(product, "carton_usd")), Num(0))),
     profit_syp |-> NumberToString(Column(product, "profit_syp")),
     wholesale_carton_usd |-> NumberToString(Column(product, "wholesale_carton_usd")),
     set |-> TRUE]

NoOp == [op |-> "none"]
NoCanvas == [width |-> 0, height |-> 0]

\* no export has been started
IdleExport ==
    /\ isExporting = FALSE
    /\ exporting = <<>>
    /\ canvas = NoCanvas
    /\ pdfPages = <<>>

\* the rate and the font size of a page that runs on the seeded rate
IdleSettings ==
    /\ storedRate = TextOf(NumberToString(Num(1170000)))
    /\ srvRate = TextOf(NumberToString(Num(1170000)))
    /\ fontSize = 14

\* no row is being edited, no context menu is open
IdleStaging ==
    /\ editValues = NoValues
    /\ contextMenu = 0
    /\ lastOp = NoOp

----------------------------------------------------------------------------
(* The exchange rate: localStorage['globalExchangeRate'], the settings row  *)
(* 'global_rate' of the server and the globalRate state                     *)

\* a string that is truthy: an item that exists and is not empty
ItemTruthy(item) == item.t = "string" /\ item.s # <<>>

\* the initializer of the globalRate state
GlobalRateInit(saved) ==
    IF ItemTruthy(saved) THEN StringToNumber(saved.s) ELSE Num(1170000)

\* JSON.stringify of a number, parsed again: NaN and the infinities are null
JsonNumber(v) == IF v.t \in {"nan", "inf"} THEN Null ELSE v

\* GET /api/settings/global-rate: the rate of the response
GetGlobalRate(setting) ==
    JsonNumber(IF ItemTruthy(setting) THEN StringToNumber(setting.s) ELSE Num(1170000))

\* a mutation of the rate sync: the server's rate wins over the local item
SyncRate_serverWins(rate, item, current) ==
    IF Truthy(rate)
    THEN [globalRate |-> rate, item |-> TextOf(NumberToString(rate))]
    ELSE IF ItemTruthy(item)
    THEN [globalRate |-> StringToNumber(item.s), item |-> item]
    ELSE [globalRate |-> current, item |-> item]

\* the rate sync of fetchData: the globalRate state and the local item after it
SyncRate(rate, item, current) ==
    IF Truthy(rate) /\ ~ItemTruthy(item)
    THEN [globalRate |-> rate, item |-> TextOf(NumberToString(rate))]
    ELSE IF ItemTruthy(item)
    THEN [globalRate |-> StringToNumber(item.s), item |-> item]
    ELSE [globalRate |-> current, item |-> item]

\* fetchData has its three responses: the rate sync against the server
RateSynced ==
    LET synced == SyncRate(GetGlobalRate(srvRate), storedRate, calcRate)
    IN  /\ calcRate' = synced.globalRate
        /\ storedRate' = synced.item

----------------------------------------------------------------------------
(* The inputs of the calculator *)

\* hundredths of a foreign-currency unit
CostValues == {Num(0), Num(474), Num(2256), Num(50), Num(-100),
               Undefined, Null, Text}
LegacyValues == {Num(0), Num(2256), Num(-100), Text}
\* hundredths of a local-currency unit: 500, 0, 250, -250, -1000, 0.5
ProfitValues == {Num(50000), Num(0), Num(25000), Num(-25000), Num(-100000),
                 Undefined, Text}
RateValues == {Num(1170000), Num(0), Num(50000), Num(100), NaN, PosInf}

PriceProducts ==
    [cost_usd : CostValues, carton_usd : LegacyValues, profit_syp : ProfitValues]

\* the view state before the component is mounted against an empty database
IdleView ==
    /\ srvCategories = {}
    /\ srvProducts = {}
    /\ srvSeq = 0
    /\ products = <<>>
    /\ categories = <<>>
    /\ searchQuery = <<>>
    /\ selectedCategory = All
    /\ showHidden = FALSE
    /\ loading = TRUE

InitPrice ==
    /\ calcProduct \in PriceProducts
    /\ calcRate \in RateValues
    /\ calcLocals = NotCalled
    /\ IdleView
    /\ IdleColumns
    /\ IdleStore
    /\ IdleEdits
    /\ IdleExport
    /\ IdleSettings
    /\ IdleStaging
    /\ rendered = TRUE

\* a cell of the syp_final column calls calculateSYP(product)
CallCalculateSYP ==
    /\ calcLocals = NotCalled
    /\ calcLocals' = calculateSYP(calcProduct, calcRate)
    /\ UNCHANGED <<calcProduct, calcRate, exportVars, settingsVars, stagingVars, rendered,
                   serverVars, viewVars, columnVars,
                   storeVars, editVars>>

NextPrice == CallCalculateSYP

SpecPrice == InitPrice /\ [][NextPrice]_vars

----------------------------------------------------------------------------
(* The price list: the database the server opens, and the handlers *)

\* the most product rows the table ever holds
MaxProducts == 2

ProductNames == {<<"A", "b">>, <<"a">>}
SearchTexts == {<<>>, <<"B">>}

\* the categories tables the server may open: sort orders against the ids,
\* and a table of equal sort orders with a category of empty name
CategoryTables ==
    { { [id |-> 1, name |-> <<"B">>, sort_order |-> 1],
        [id |-> 2, name |-> <<"a", "A">>, sort_order |-> 0] },
      { [id |-> 1, name |-> <<"B">>, sort_order |-> 0],
        [id |-> 2, name |-> <<>>, sort_order |-> 0] } }

\* a product row: its category is 1, 2 or NULL
ProductRows(id) ==
    [id : {id}, category_id : {NULL, 1, 2}, name : ProductNames, is_hidden : {0, 1}]

RECURSIVE ProductTables(_)
\* the products tables of rows 1..n
ProductTables(n) ==
    IF n = 0 THEN {{}}
    ELSE { t \cup {r} : t \in ProductTables(n - 1), r \in ProductRows(n) }

Init ==
    /\ calcProduct = [cost_usd |-> Num(0), carton_usd |-> Num(0), profit_syp |-> Num(0)]
    /\ calcRate = Num(1170000)
    /\ calcLocals = NotCalled
    /\ srvCategories \in CategoryTables
    /\ \E n \in 0..MaxProducts :
        /\ srvProducts \in ProductTables(n)
        /\ srvSeq = n
    /\ products = <<>>
    /\ categories = <<>>
    /\ searchQuery = <<>>
    /\ selectedCategory = All
    /\ showHidden = FALSE
    /\ loading = TRUE
    /\ IdleColumns
    /\ IdleStore
    /\ IdleEdits
    /\ IdleExport
    /\ IdleSettings
    /\ IdleStaging
    /\ rendered = TRUE

\* the ids of the products of the live view: the rows a click can reach
ShownIds == { View[i].product.id : i \in { j \in 1..Len(View) : View[j].type = "product" } }

\* fetchData on mount: both lists are replaced by the server's, or the
\* requests fail and nothing but the loading flag changes
fetchDataSucceeds ==
    /\ ~effectsPending
    /\ loading
    /\ loading' = FALSE
    /\ products' = GetProducts(srvProducts, srvCategories)
    /\ categories' = RenderedCategories(GetCategories(srvCategories))
    /\ RateSynced
    /\ UNCHANGED <<calcProduct, calcLocals, exportVars, srvRate, fontSize, stagingVars,
                   rendered, columnVars, storeVars, editVars, serverVars, searchQuery,
                   selectedCategory, showHidden>>

fetchDataFails ==
    /\ ~effectsPending
    /\ loading
    /\ loading' = FALSE
    /\ UNCHANGED <<priceVars, exportVars, settingsVars, stagingVars, rendered, columnVars,
                   storeVars, editVars, serverVars, products, categories, searchQuery,
                   selectedCategory, showHidden>>

fetchData == fetchDataSucceeds \/ fetchDataFails

\* the search box
setSearchQuery ==
    /\ ~loading
    /\ \E text \in SearchTexts : searchQuery' = text
    /\ UNCHANGED <<priceVars, exportVars, settingsVars, stagingVars, rendered, columnVars, storeVars, editVars, serverVars, products, categories, selectedCategory,
                   showHidden, loading>>

\* the category select: "all" or the name of a category of the list
setSelectedCategory ==
    /\ ~loading
    /\ \E value \in {All} \cup { categories[i].name : i \in 1..Len(categories) } :
        selectedCategory' = value
    /\ UNCHANGED <<priceVars, exportVars, settingsVars, stagingVars, rendered, columnVars, storeVars, editVars, serverVars, products, categories, searchQuery,
                   showHidden, loading>>

\* the hidden-products button
setShowHidden ==
    /\ ~loading
    /\ showHidden' = ~showHidden
    /\ UNCHANGED <<priceVars, exportVars, settingsVars, stagingVars, rendered, columnVars, storeVars, editVars, serverVars, products, categories, searchQuery,
                   selectedCategory, loading>>

\* the local patch of handleUpdateProduct
PatchHidden(prods, id, is_hidden) ==
    [i \in 1..Len(prods) |->
        IF prods[i].id = id THEN [prods[i] EXCEPT !.is_hidden = is_hidden] ELSE prods[i]]

\* hide / unhide of the context menu: handleUpdateProduct(id, { is_hidden }).
\* The list is patched, then the PUT succeeds, or it is rejected and
\* fetchData reloads the lists (the reload is taken to succeed).
handleUpdateProduct ==
    /\ ~loading
    /\ \E i \in 1..Len(products) :
        LET product == products[i]
            is_hidden == IF product.is_hidden = 1 THEN 0 ELSE 1
        IN  /\ product.id \in ShownIds
            /\ \/ /\ products' = PatchHidden(products, product.id, is_hidden)
                  /\ srvProducts' = UpdateHidden(srvProducts, product.id, is_hidden)
                  /\ UNCHANGED categories
               \/ /\ products' = GetProducts(srvProducts, srvCategories)
                  /\ categories' = RenderedCategories(GetCategories(srvCategories))
                  /\ UNCHANGED srvProducts
    /\ UNCHANGED <<priceVars, exportVars, settingsVars, stagingVars, rendered, columnVars, storeVars, editVars, srvCategories, srvSeq, searchQuery, selectedCategory,
                   showHidden, loading>>

\* delete of the context menu, confirmed: the row is deleted on the server,
\* then filtered out of the list
handleDeleteProduct ==
    /\ ~loading
    /\ \E id \in ShownIds :
        /\ srvProducts' = { p \in srvProducts : p.id # id }
        /\ products' = SelectSeq(products, LAMBDA p : p.id # id)
    /\ UNCHANGED <<priceVars, exportVars, settingsVars, stagingVars, rendered, columnVars, storeVars, editVars, srvCategories, srvSeq, categories, searchQuery,
                   selectedCategory, showHidden, loading>>

\* the add form: POST /api/products, then fetchData.  The category is the
\* form's default 1 or an option of the select
handleAddProduct ==
    /\ ~loading
    /\ srvSeq < MaxProducts
    /\ \E name \in ProductNames,
          category_id \in {1} \cup { categories[i].id : i \in 1..Len(categories) } :
        /\ srvProducts' = srvProducts \cup {InsertedProduct(srvSeq + 1, category_id, name)}
        /\ srvSeq' = srvSeq + 1
        /\ products' = GetProducts(srvProducts', srvCategories)
        /\ categories' = RenderedCategories(GetCategories(srvCategories))
    /\ UNCHANGED <<priceVars, exportVars, settingsVars, stagingVars, rendered, columnVars, storeVars, editVars, srvCategories, searchQuery, selectedCategory,
                   showHidden, loading>>

\* the arrows of the category list: two neighbours are swapped, the indexes
\* are posted as sort orders, then fetchData
handleReorderCategories ==
    /\ ~loading
    /\ \E index \in 1..(Len(categories) - 1) :
        LET newCats == [i \in 1..Len(categories) |->
                            IF i = index THEN categories[index + 1]
                            ELSE IF i = index + 1 THEN categories[index]
                            ELSE categories[i]]
        IN  /\ srvCategories' = Reorder(srvCategories, newCats)
            /\ products' = GetProducts(srvProducts, srvCategories')
            /\ categories' = RenderedCategories(GetCategories(srvCategories'))
    /\ UNCHANGED <<priceVars, exportVars, settingsVars, stagingVars, rendered, columnVars, storeVars, editVars, srvProducts, srvSeq, searchQuery, selectedCategory,
                   showHidden, loading>>

Next ==
    \/ fetchData
    \/ setSearchQuery
    \/ setSelectedCategory
    \/ setShowHidden
    \/ handleUpdateProduct
    \/ handleDeleteProduct
    \/ handleAddProduct
    \/ handleReorderCategories

Spec == Init /\ [][Next]_vars

----------------------------------------------------------------------------
(* The column registry: what the browser has persisted, and the handlers *)

\* the largest index (from 0) whose arrows are used
MaxMoveIndex == 2

\* the columns whose visibility is toggled
ToggledColumns == {"name", "syp_final", "case_usd"}

\* what localStorage may hold when the page loads: nothing, a text that is
\* no list, the lists of a build with fewer columns, a reordered list
PersistedOrders ==
    { Absent, Malformed, Json(<<>>),
      Json(<<"syp_final", "name">>),
      Json(<<"lsg", "name", "syp_final", "cost_usd", "profit_syp">>),
      Json(<<"syp_final", "name", "cost_usd", "profit_syp", "wholesale_carton_usd",
             "lsg", "wholesale_case_usd", "case_usd">>) }

PersistedVisibles ==
    { Absent, Malformed, Json(<<>>),
      Json(<<"syp_final", "cost_usd">>),
      Json(<<"cost_usd", "name">>),
      Json(<<"name", "case_usd", "lsg">>) }

\* the state of a page that has just been loaded: the initializers have read
\* localStorage, the first render's effects have not run yet
Loaded(order, visible) ==
    /\ columnOrder = ColumnOrderInit(order)
    /\ visibleColumns = VisibleColumnsInit(visible)
    /\ editingId = 0
    /\ storedOrder = order
    /\ storedVisible = visible
    /\ effectsPending = TRUE

InitColumns ==
    /\ calcProduct = [cost_usd |-> Num(0), carton_usd |-> Num(0), profit_syp |-> Num(0)]
    /\ calcRate = Num(1170000)
    /\ calcLocals = NotCalled
    /\ srvCategories = { [id |-> 1, name |-> <<"B">>, sort_order |-> 0] }
    /\ srvProducts = { [id |-> 1, category_id |-> 1, name |-> <<"a">>, is_hidden |-> 0] }
    /\ srvSeq = 1
    /\ products = <<>>
    /\ categories = <<>>
    /\ searchQuery = <<>>
    /\ selectedCategory = All
    /\ showHidden = FALSE
    /\ loading = TRUE
    /\ \E order \in PersistedOrders, visible \in PersistedVisibles : Loaded(order, visible)
    /\ IdleStore
    /\ IdleEdits
    /\ IdleExport
    /\ IdleSettings
    /\ IdleStaging
    /\ rendered = TRUE

\* the effects of the first render: both lists are written to localStorage
persistEffects ==
    /\ effectsPending
    /\ effectsPending' = FALSE
    /\ storedVisible' = Json(visibleColumns)
    /\ storedOrder' = Json(columnOrder)
    /\ UNCHANGED <<priceVars, exportVars, settingsVars, stagingVars, rendered, serverVars, viewVars, columnOrder, visibleColumns,
                   editingId, storeVars, editVars>>

\* the check box of a column in the settings dialog, and the effect that
\* persists the new list
toggleColumn ==
    /\ ~effectsPending
    /\ ~loading
    /\ \E index \in 1..Len(columnOrder) :
        LET colId == columnOrder[index]
        IN  /\ colId \in ColInfoIds
            /\ colId \in ToggledColumns
            /\ visibleColumns' = ToggleColumn(visibleColumns, colId)
            /\ storedVisible' = Json(visibleColumns')
    /\ UNCHANGED <<priceVars, exportVars, settingsVars, stagingVars, rendered, serverVars, viewVars, columnOrder, editingId,
                   storedOrder, effectsPending, storeVars, editVars>>

\* the up arrow of the column at index (from 0), and the persisting effect
moveColumnUp ==
    /\ ~effectsPending
    /\ ~loading
    /\ \E index \in 1..MaxMoveIndex :
        /\ index <= Len(columnOrder) - 1
        /\ columnOrder[index + 1] \in ColInfoIds
        /\ columnOrder' = SwapColumns(columnOrder, index, index + 1)
        /\ storedOrder' = Json(columnOrder')
    /\ UNCHANGED <<priceVars, exportVars, settingsVars, stagingVars, rendered, serverVars, viewVars, visibleColumns, editingId,
                   storedVisible, effectsPending, storeVars, editVars>>

\* the down arrow of the column at index (from 0), and the persisting effect
moveColumnDown ==
    /\ ~effectsPending
    /\ ~loading
    /\ \E index \in 0..MaxMoveIndex :
        /\ index < Len(columnOrder) - 1
        /\ columnOrder[index + 1] \in ColInfoIds
        /\ columnOrder' = SwapColumns(columnOrder, index + 2, index + 1)
        /\ storedOrder' = Json(columnOrder')
    /\ UNCHANGED <<priceVars, exportVars, settingsVars, stagingVars, rendered, serverVars, viewVars, visibleColumns, editingId,
                   storedVisible, effectsPending, storeVars, editVars>>

\* resetTableSettings, confirmed: both lists are set to the defaults, both
\* items are removed, and the effects of the render that follows (both lists
\* are new arrays) write them again
resetTableSettings ==
    /\ ~effectsPending
    /\ ~loading
    /\ columnOrder' = DEFAULT_COLUMNS
    /\ visibleColumns' = DEFAULT_VISIBLE
    /\ storedVisible' = Json(visibleColumns')
    /\ storedOrder' = Json(columnOrder')
    /\ UNCHANGED <<priceVars, exportVars, settingsVars, stagingVars, rendered, serverVars, viewVars, editingId, effectsPending,
                   storeVars, editVars>>

\* a page load: every state is initialized anew, the initializers of
\* columnOrder and visibleColumns read localStorage
LoadPage(order, visible, rate) ==
    /\ calcRate' = GlobalRateInit(rate)
    /\ storedRate' = rate
    /\ fontSize' = 14
    /\ columnOrder' = ColumnOrderInit(order)
    /\ visibleColumns' = VisibleColumnsInit(visible)
    /\ editingId' = 0
    /\ storedOrder' = order
    /\ storedVisible' = visible
    /\ effectsPending' = TRUE
    /\ editValues' = NoValues
    /\ contextMenu' = 0
    /\ products' = <<>>
    /\ categories' = <<>>
    /\ searchQuery' = <<>>
    /\ selectedCategory' = All
    /\ showHidden' = FALSE
    /\ loading' = TRUE

\* the page is loaded again
reloadPage ==
    /\ ~effectsPending
    /\ LoadPage(storedOrder, storedVisible, storedRate)
    /\ UNCHANGED <<calcProduct, calcLocals, exportVars, srvRate, lastOp, rendered,
                   serverVars, storeVars, editVars>>

\* resetAllSettings, confirmed: localStorage.clear(), window.location.reload()
resetAllSettings ==
    /\ ~effectsPending
    /\ ~loading
    /\ LoadPage(Absent, Absent, Absent)
    /\ UNCHANGED <<calcProduct, calcLocals, exportVars, srvRate, lastOp, rendered,
                   serverVars, storeVars, editVars>>

\* a double click on a product row, or "edit" of its context menu
startEdit ==
    /\ ~effectsPending
    /\ ~loading
    /\ \E i \in 1..Len(products) :
        /\ products[i].id \in ShownIds
        /\ editValues' = StagingBuffer(products[i])
        /\ editingId' = products[i].id
    /\ UNCHANGED <<priceVars, exportVars, settingsVars, contextMenu, lastOp, rendered,
                   serverVars, viewVars, columnOrder, visibleColumns,
                   storedOrder, storedVisible, effectsPending, storeVars, editVars>>

\* the cancel button of the actions column, or Escape in a cell
cancelEdit ==
    /\ editingId # 0
    /\ editingId' = 0
    /\ editValues' = NoValues
    /\ UNCHANGED <<priceVars, exportVars, settingsVars, contextMenu, lastOp, rendered,
                   serverVars, viewVars, columnOrder, visibleColumns,
                   storedOrder, storedVisible, effectsPending, storeVars, editVars>>

NextColumns ==
    \/ persistEffects
    \/ fetchData
    \/ toggleColumn
    \/ moveColumnUp
    \/ moveColumnDown
    \/ resetTableSettings
    \/ reloadPage
    \/ resetAllSettings
    \/ startEdit
    \/ cancelEdit

SpecColumns == InitColumns /\ [][NextColumns]_vars

----------------------------------------------------------------------------
(* The products table with every column, and one write request *)

\* the rows the table may hold: row 1 with or without primary and legacy
\* cost, row 2 beside it
StoredTables ==
    { { [id |-> 1, name |-> Str(1), cost_usd |-> cost, profit_syp |-> Num(50000),
         wholesale_profit_syp |-> Num(25000), carton_usd |-> carton,
         wholesale_carton_usd |-> Num(400), category_id |-> Whole(1),
         is_hidden |-> Whole(0)],
        [id |-> 2, name |-> Str(2), cost_usd |-> Num(100), profit_syp |-> Num(100000),
         wholesale_profit_syp |-> Num(25000), carton_usd |-> Num(100),
         wholesale_carton_usd |-> Num(0), category_id |-> Whole(1),
         is_hidden |-> Whole(1)] } :
      cost \in {Num(0), Num(474)}, carton \in {Num(0), Num(2256)} }

\* the bodies of PUT /api/products/:id: a field is absent, null or a value
PutBodies ==
    [name : {Undefined, Str(3)},
     cost_usd : {Undefined, Null, Num(0), Num(500)},
     profit_syp : {Undefined, Num(0)},
     wholesale_profit_syp : {Undefined},
     carton_usd : {Undefined, Num(700)},
     wholesale_carton_usd : {Undefined, Num(300)},
     category_id : {Undefined},
     is_hidden : {Undefined, Whole(1)}]

\* the ids of PUT /api/products/:id: a row of the table, or none
PutIds == {1, 2, 3}

\* the bodies of POST /api/products
PostBodies ==
    [name : {Str(3)},
     cost_usd : {Undefined, Num(0), Num(474)},
     profit_syp : {Undefined, Num(0), Num(60000)},
     wholesale_profit_syp : {Undefined, Num(0), Num(10000)},
     carton_usd : {Undefined, Num(2256)},
     wholesale_carton_usd : {Undefined, Num(0), Num(500)},
     category_id : {Whole(1)},
     is_hidden : {Undefined}]

InitStore ==
    /\ calcProduct = [cost_usd |-> Num(0), carton_usd |-> Num(0), profit_syp |-> Num(0)]
    /\ calcRate = Num(1170000)
    /\ calcLocals = NotCalled
    /\ IdleView
    /\ IdleColumns
    /\ dbProducts \in StoredTables
    /\ dbPrior = dbProducts
    /\ dbRequest = NoRequest
    /\ IdleEdits
    /\ IdleExport
    /\ IdleSettings
    /\ IdleStaging
    /\ rendered = TRUE

\* the server handles PUT /api/products/:id
putProduct ==
    /\ dbRequest = NoRequest
    /\ \E id \in PutIds, body \in PutBodies :
        /\ dbRequest' = [op |-> "PUT", id |-> id, body |-> body]
        /\ dbProducts' = PutProduct(dbProducts, id, body)
    /\ dbPrior' = dbProducts
    /\ UNCHANGED <<priceVars, exportVars, settingsVars, stagingVars, rendered, serverVars, viewVars, columnVars, editVars>>

\* the server handles POST /api/products
postProduct ==
    /\ dbRequest = NoRequest
    /\ \E body \in PostBodies :
        /\ dbRequest' = [op |-> "POST", id |-> NextRowId(dbProducts), body |-> body]
        /\ dbProducts' = dbProducts \cup {PostRow(NextRowId(dbProducts), body)}
    /\ dbPrior' = dbProducts
    /\ UNCHANGED <<priceVars, exportVars, settingsVars, stagingVars, rendered, serverVars, viewVars, columnVars, editVars>>

NextStore ==
    \/ putProduct
    \/ postProduct

SpecStore == InitStore /\ [][NextStore]_vars

----------------------------------------------------------------------------
(* Edit commits: the optimistic patch, the PUT in flight, the reload *)

\* the most edits committed in one behaviour
MaxEdits == 2

\* the names typed into the name cell
EditNames == {<<"b">>}

\* prev.map(p => p.id === id ? { ...p, ...updates } : p) with updates { name }
PatchName(prods, id, name) ==
    [i \in 1..Len(prods) |->
        IF prods[i].id = id THEN [prods[i] EXCEPT !.name = name] ELSE prods[i]]

\* PUT /api/products/:id with { name }
UpdateName(prods, id, name) ==
    { IF p.id = id THEN [p EXCEPT !.name = name] ELSE p : p \in prods }

\* a request in flight.  stage: "sent" (not yet at the server), "ok" (handled,
\* the response on its way), "error" (answered with an error status, nothing
\* written), "rejected" (the fetch promise rejects: the network failed)
PutRequest(no, id, name) ==
    [kind |-> "PUT", no |-> no, id |-> id, name |-> name, stage |-> "sent", data |-> <<>>]
GetRequest(no) ==
    [kind |-> "GET", no |-> no, id |-> 0, name |-> <<>>, stage |-> "sent", data |-> <<>>]

\* m in another stage
Staged(m, stage) == (requests \ {m}) \cup {[m EXCEPT !.stage = stage]}

InitEdit ==
    /\ calcProduct = [cost_usd |-> Num(0), carton_usd |-> Num(0), profit_syp |-> Num(0)]
    /\ calcRate = Num(1170000)
    /\ calcLocals = NotCalled
    /\ srvCategories = { [id |-> 1, name |-> <<"B">>, sort_order |-> 1],
                         [id |-> 2, name |-> <<"a", "A">>, sort_order |-> 0] }
    /\ srvProducts = { [id |-> 1, category_id |-> 1, name |-> <<"a">>, is_hidden |-> 0],
                       [id |-> 2, category_id |-> 2, name |-> <<"A", "b">>, is_hidden |-> 0] }
    /\ srvSeq = 2
    /\ products = GetProducts(srvProducts, srvCategories)
    /\ categories = RenderedCategories(GetCategories(srvCategories))
    /\ searchQuery = <<>>
    /\ selectedCategory = All
    /\ showHidden = FALSE
    /\ loading = FALSE
    /\ IdleColumns
    /\ IdleStore
    /\ IdleEdits
    /\ IdleExport
    /\ IdleSettings
    /\ IdleStaging
    /\ rendered = TRUE

\* the save button of a row: handleUpdateProduct patches the list and sends
\* the PUT, which it awaits
commitEdit ==
    /\ Len(edits) < MaxEdits
    /\ \E id \in ShownIds, name \in EditNames :
        /\ products' = PatchName(products, id, name)
        /\ requests' = requests \cup {PutRequest(Len(edits) + 1, id, name)}
        /\ edits' = Append(edits, [id |-> id, name |-> name, write |-> "pending",
                                   reload |-> "none"])
    /\ UNCHANGED <<priceVars, exportVars, settingsVars, stagingVars, rendered, serverVars, categories, searchQuery, selectedCategory,
                   showHidden, loading, columnVars, storeVars>>

\* the server handles a PUT and answers { success: true }
putHandled ==
    /\ \E m \in requests :
        /\ m.kind = "PUT" /\ m.stage = "sent"
        /\ srvProducts' = UpdateName(srvProducts, m.id, m.name)
        /\ requests' = Staged(m, "ok")
    /\ UNCHANGED <<priceVars, exportVars, settingsVars, stagingVars, rendered, srvCategories, srvSeq, viewVars, columnVars, storeVars, edits>>

\* a PUT is answered with an error status: the statement threw, or a gateway
\* in front of the server answered for it; nothing is written
putAnsweredWithError ==
    /\ \E m \in requests :
        /\ m.kind = "PUT" /\ m.stage = "sent"
        /\ requests' = Staged(m, "error")
    /\ UNCHANGED <<priceVars, exportVars, settingsVars, stagingVars, rendered, serverVars, viewVars, columnVars, storeVars, edits>>

\* the network fails a request, before the server sees it or with its
\* response on the way: the promise of fetch rejects
networkFails ==
    /\ \E m \in requests :
        /\ m.stage # "rejected"
        /\ requests' = Staged(m, "rejected")
    /\ UNCHANGED <<priceVars, exportVars, settingsVars, stagingVars, rendered, serverVars, viewVars, columnVars, storeVars, edits>>

\* the await of handleUpdateProduct ends: a response of any status resolves
\* it and the handler returns; a rejection is caught and fetchData is called
putSettles ==
    /\ \E m \in requests :
        /\ m.kind = "PUT" /\ m.stage # "sent"
        /\ IF m.stage = "rejected"
           THEN /\ requests' = (requests \ {m}) \cup {GetRequest(m.no)}
                /\ edits' = [edits EXCEPT ![m.no].write = "failed",
                                          ![m.no].reload = "sent"]
           ELSE /\ requests' = requests \ {m}
                /\ edits' = [edits EXCEPT ![m.no].write =
                                IF m.stage = "ok" THEN "ok" ELSE "failed"]
    /\ UNCHANGED <<priceVars, exportVars, settingsVars, stagingVars, rendered, serverVars, viewVars, columnVars, storeVars>>

\* the server handles the GETs of fetchData
getHandled ==
    /\ \E m \in requests :
        /\ m.kind = "GET" /\ m.stage = "sent"
        /\ requests' = (requests \ {m})
                \cup {[m EXCEPT !.stage = "ok",
                                !.data = GetProducts(srvProducts, srvCategories)]}
    /\ UNCHANGED <<priceVars, exportVars, settingsVars, stagingVars, rendered, serverVars, viewVars, columnVars, storeVars, edits>>

\* the awaits of fetchData end: the lists are replaced by the responses, or
\* the rejection is caught and nothing is replaced
getSettles ==
    /\ \E m \in requests :
        /\ m.kind = "GET" /\ m.stage # "sent"
        /\ requests' = requests \ {m}
        /\ IF m.stage = "ok"
           THEN /\ products' = m.data
                /\ categories' = RenderedCategories(GetCategories(srvCategories))
                /\ edits' = [edits EXCEPT ![m.no].reload = "done"]
           ELSE /\ UNCHANGED <<products, categories>>
                /\ edits' = [edits EXCEPT ![m.no].reload = "failed"]
    /\ UNCHANGED <<priceVars, exportVars, settingsVars, stagingVars, rendered, serverVars, searchQuery, selectedCategory, showHidden,
                   loading, columnVars, storeVars>>

NextEdit ==
    \/ commitEdit
    \/ putHandled
    \/ putAnsweredWithError
    \/ networkFails
    \/ putSettles
    \/ getHandled
    \/ getSettles

SpecEdit == InitEdit /\ [][NextEdit]_vars

----------------------------------------------------------------------------
(* The exports: the busy flag, html2canvas in flight, the pages of the PDF  *)
(*                                                                          *)
(* The page count is Math.ceil(imgHeight / imgPageHeightInPixels), two      *)
(* divisions of doubles.  imgPageHeightInPixels is the double next to       *)
(* 311 W / 78: with 311 W 2^s = 78 q + r and q of 53 bits, it is            *)
(* (311 W + d / 2^s) / 78, where d = -r when q is the nearest and           *)
(* d = 78 - r when q + 1 is.  A quotient imgHeight / imgPageHeightInPixels  *)
(* that is no whole number in exact arithmetic lies further from a whole    *)
(* number than any rounding reaches; one that is the whole number k is      *)
(* rounded to a double above k exactly when d < 0 and                       *)
(* |d| (k 2^t + 1) > 311 W 2^s, where 2^(t - 1) k has 53 bits.              *)

pdfWidth == 78
pdfPageHeight == 311

RECURSIVE Pow2(_)
Pow2(e) == IF e = 0 THEN 1 ELSE 2 * Pow2(e - 1)

RECURSIVE Pow2Mod(_, _)
\* 2^e modulo m
Pow2Mod(e, m) == IF e = 0 THEN 1 % m ELSE (2 * Pow2Mod(e - 1, m)) % m

RECURSIVE Log2Quotient(_, _)
\* the largest j with b 2^j <= a, for a >= b
Log2Quotient(a, b) == IF 2 * b <= a THEN 1 + Log2Quotient(a, 2 * b) ELSE 0

\* the binary exponent s that makes (pdfPageHeight * imgWidth) 2^s / pdfWidth
\* a number of 53 bits
PageHeightScale(imgWidth) == 52 - Log2Quotient(pdfPageHeight * imgWidth, pdfWidth)

\* d: pdfWidth times the rounding error of imgPageHeightInPixels, in units
\* of 2^-s (round to nearest, ties to even)
PageHeightError(imgWidth) ==
    LET a == pdfPageHeight * imgWidth
        s == PageHeightScale(imgWidth)
        r == ((a % pdfWidth) * Pow2Mod(s, pdfWidth)) % pdfWidth
        r2 == ((a % (2 * pdfWidth)) * Pow2Mod(s, 2 * pdfWidth)) % (2 * pdfWidth)
        up == 2 * r > pdfWidth \/ (2 * r = pdfWidth /\ r2 > pdfWidth)
    IN  IF r = 0 THEN 0 ELSE IF up THEN pdfWidth - r ELSE -r

\* imgHeight / imgPageHeightInPixels is the whole number k in exact
\* arithmetic: whether the double the division yields is above k
QuotientAbove(imgWidth, k) ==
    LET a == pdfPageHeight * imgWidth
        s == PageHeightScale(imgWidth)
        d == PageHeightError(imgWidth)
        t == 53 - Log2Quotient(k, 1)
        g == IF s < t THEN s ELSE t
    IN  d < 0 /\ (-d) * k * Pow2(t - g) >= a * Pow2(s - g)

\* totalPages = Math.ceil(imgHeight / imgPageHeightInPixels)
TotalPages(imgWidth, imgHeight) ==
    LET a == pdfPageHeight * imgWidth
        h == imgHeight * pdfWidth
    IN  IF h % a # 0 THEN (h \div a) + 1
        ELSE IF QuotientAbove(imgWidth, h \div a) THEN (h \div a) + 1
        ELSE h \div a

\* the loop over the pages: the position addImage receives on each page
PdfPositions(imgWidth, imgHeight) ==
    [i \in 1..TotalPages(imgWidth, imgHeight) |-> -(pdfPageHeight * (i - 1))]

\* a mutation of the buttons: they stay enabled during an export
ExportButtonEnabled_always(busy) == TRUE

\* disabled={isExporting} of the two export buttons
ExportButtonEnabled(busy) == ~busy

\* the canvases html2canvas may render the table to: widths that divide the
\* page evenly and widths that do not, heights of less than a page, of whole
\* pages and of a pixel more or less
CanvasWidths == {78, 66, 39}
CanvasHeights == {1, 310, 311, 312, 622, 3420, 3421, 3422}

InitExport ==
    /\ calcProduct = [cost_usd |-> Num(0), carton_usd |-> Num(0), profit_syp |-> Num(0)]
    /\ calcRate = Num(1170000)
    /\ calcLocals = NotCalled
    /\ IdleView
    /\ IdleColumns
    /\ IdleStore
    /\ IdleEdits
    /\ isExporting = FALSE
    /\ exporting = <<>>
    /\ canvas \in [width : CanvasWidths, height : CanvasHeights]
    /\ pdfPages = <<>>
    /\ IdleSettings
    /\ IdleStaging
    /\ rendered = TRUE

\* a click on the image button: handleExportImage up to its await
handleExportImage ==
    /\ ~loading
    /\ ExportButtonEnabled(isExporting)
    /\ isExporting' = TRUE
    /\ exporting' = Append(exporting, "image")
    /\ UNCHANGED <<priceVars, serverVars, viewVars, columnVars, storeVars, editVars,
                   canvas, pdfPages, settingsVars, stagingVars, rendered>>

\* a click on the PDF button: handleExportPDF up to its await
handleExportPDF ==
    /\ ~loading
    /\ ExportButtonEnabled(isExporting)
    /\ isExporting' = TRUE
    /\ exporting' = Append(exporting, "pdf")
    /\ UNCHANGED <<priceVars, serverVars, viewVars, columnVars, storeVars, editVars,
                   canvas, pdfPages, settingsVars, stagingVars, rendered>>

\* html2canvas resolves: the file is built and saved, finally clears the flag
html2canvasResolves ==
    /\ exporting # <<>>
    /\ pdfPages' = IF Head(exporting) = "pdf"
                   THEN PdfPositions(canvas.width, canvas.height)
                   ELSE pdfPages
    /\ exporting' = Tail(exporting)
    /\ isExporting' = FALSE
    /\ UNCHANGED <<priceVars, serverVars, viewVars, columnVars, storeVars, editVars,
                   canvas, settingsVars, stagingVars, rendered>>

\* html2canvas rejects: the alert, then finally clears the flag
html2canvasRejects ==
    /\ exporting # <<>>
    /\ exporting' = Tail(exporting)
    /\ isExporting' = FALSE
    /\ UNCHANGED <<priceVars, serverVars, viewVars, columnVars, storeVars, editVars,
                   canvas, pdfPages, settingsVars, stagingVars, rendered>>

NextExport ==
    \/ fetchData
    \/ handleExportImage
    \/ handleExportPDF
    \/ html2canvasResolves
    \/ html2canvasRejects

SpecExport == InitExport /\ [][NextExport]_vars

----------------------------------------------------------------------------
(* The settings: what the browser has persisted, the rate of the server,   *)
(* and the handlers of the rate and of the font size                        *)

\* localStorage['globalExchangeRate'] at load: nothing, the empty text,
\* 12000, and two texts that are no number ("abc" and "12,5")
PersistedRates ==
    { Absent, TextOf(<<>>), TextOf(<<"1", "2", "0", "0", "0">>),
      TextOf(<<"a", "b", "c">>), TextOf(<<"1", "2", ",", "5">>) }

\* the settings row of the server: none, 11700, 13000 and 0
ServerRates ==
    { Absent, TextOf(<<"1", "1", "7", "0", "0">>),
      TextOf(<<"1", "3", "0", "0", "0">>), TextOf(<<"0">>) }

\* what the user types into the rate input
RateInputs == { <<"1", "2", "5", "0", "0">>, <<"9", "9", ".", "5">>, <<>> }

\* the positions of the font-size slider the user moves it to
FontSizes == {10, 24}

SettingsOrders == { Absent, Malformed, Json(<<"syp_final", "name">>) }
SettingsVisibles == { Absent, Malformed, Json(<<"cost_usd", "name">>) }

InitSettings ==
    /\ calcProduct = [cost_usd |-> Num(0), carton_usd |-> Num(0), profit_syp |-> Num(0)]
    /\ calcLocals = NotCalled
    /\ srvCategories = { [id |-> 1, name |-> <<"B">>, sort_order |-> 0] }
    /\ srvProducts = { [id |-> 1, category_id |-> 1, name |-> <<"a">>, is_hidden |-> 0] }
    /\ srvSeq = 1
    /\ products = <<>>
    /\ categories = <<>>
    /\ searchQuery = <<>>
    /\ selectedCategory = All
    /\ showHidden = FALSE
    /\ loading = TRUE
    /\ \E order \in SettingsOrders, visible \in SettingsVisibles : Loaded(order, visible)
    /\ storedRate \in PersistedRates
    /\ calcRate = GlobalRateInit(storedRate)
    /\ srvRate \in ServerRates
    /\ fontSize = 14
    /\ IdleStore
    /\ IdleEdits
    /\ IdleExport
    /\ IdleStaging
    /\ rendered = TRUE

\* the rate input: onChange sets the state to Number(e.target.value)
typeRate ==
    /\ ~effectsPending
    /\ ~loading
    /\ \E text \in RateInputs : calcRate' = StringToNumber(text)
    /\ UNCHANGED <<calcProduct, calcLocals, serverVars, viewVars, columnVars, storeVars,
                   editVars, exportVars, settingsVars, stagingVars, rendered>>

\* rateToSave of handleUpdateGlobalRate
RateToSave == JsOr(ToNumber(calcRate), Num(0))

\* handleUpdateGlobalRate: the item is written, the POST is answered,
\* fetchData reloads the lists and syncs the rate against the new item
updateRateRefreshed ==
    /\ ~effectsPending
    /\ ~loading
    /\ srvRate' = TextOf(NumberToString(JsonNumber(RateToSave)))
    /\ products' = GetProducts(srvProducts, srvCategories)
    /\ categories' = RenderedCategories(GetCategories(srvCategories))
    /\ LET synced == SyncRate(GetGlobalRate(srvRate'),
                              TextOf(NumberToString(RateToSave)), calcRate)
       IN  /\ calcRate' = synced.globalRate
           /\ storedRate' = synced.item
    /\ UNCHANGED <<calcProduct, calcLocals, serverVars, searchQuery, selectedCategory,
                   showHidden, loading, columnVars, storeVars, editVars, exportVars,
                   fontSize, stagingVars, rendered>>

\* handleUpdateGlobalRate: the item is written, the POST is answered, the
\* requests of fetchData fail
updateRatePosted ==
    /\ ~effectsPending
    /\ ~loading
    /\ storedRate' = TextOf(NumberToString(RateToSave))
    /\ srvRate' = TextOf(NumberToString(JsonNumber(RateToSave)))
    /\ UNCHANGED <<priceVars, serverVars, viewVars, columnVars, storeVars, editVars,
                   exportVars, fontSize, stagingVars, rendered>>

\* handleUpdateGlobalRate: the item is written, the POST fails
updateRateFails ==
    /\ ~effectsPending
    /\ ~loading
    /\ storedRate' = TextOf(NumberToString(RateToSave))
    /\ UNCHANGED <<priceVars, serverVars, viewVars, columnVars, storeVars, editVars,
                   exportVars, srvRate, fontSize, stagingVars, rendered>>

handleUpdateGlobalRate == updateRateRefreshed \/ updateRatePosted \/ updateRateFails

\* the font-size slider
setFontSize ==
    /\ ~effectsPending
    /\ ~loading
    /\ \E size \in FontSizes : fontSize' = size
    /\ UNCHANGED <<priceVars, serverVars, viewVars, columnVars, storeVars, editVars,
                   exportVars, storedRate, srvRate, stagingVars, rendered>>

NextSettings ==
    \/ persistEffects
    \/ fetchData
    \/ typeRate
    \/ handleUpdateGlobalRate
    \/ setFontSize
    \/ reloadPage
    \/ resetAllSettings

SpecSettings == InitSettings /\ [][NextSettings]_vars

----------------------------------------------------------------------------
(* Renders: a reorder of the categories step by step.  The handler sets    *)
(* the category list after its POST and calls fetchData; the component is  *)
(* rendered with the new list before the responses of fetchData arrive.    *)
(* One reorder is followed at a time.                                      *)

\* handleReorderCategories up to the awaits of its fetchData: the POST is
\* answered, setCategories(newCategories), the GETs are sent
reorderPosted ==
    /\ ~loading
    /\ rendered
    /\ requests = {}
    /\ \E index \in 1..(Len(categories) - 1) :
        LET newCats == [i \in 1..Len(categories) |->
                            IF i = index THEN categories[index + 1]
                            ELSE IF i = index + 1 THEN categories[index]
                            ELSE categories[i]]
        IN  /\ srvCategories' = Reorder(srvCategories, newCats)
            /\ categories' = newCats
    /\ requests' = {GetRequest(0)}
    /\ rendered' = FALSE
    /\ UNCHANGED <<priceVars, exportVars, settingsVars, stagingVars, columnVars, storeVars,
                   edits, srvProducts, srvSeq, products, searchQuery, selectedCategory,
                   showHidden, loading>>

\* the component is rendered after a state change: groupedData is computed
\* anew and the rows of the export table are rendered, and both sort the
\* category list of the state
render ==
    /\ ~rendered
    /\ rendered' = TRUE
    /\ categories' = RenderedCategories(categories)
    /\ UNCHANGED <<priceVars, exportVars, settingsVars, stagingVars, columnVars, storeVars,
                   editVars, serverVars, products, searchQuery, selectedCategory,
                   showHidden, loading>>

\* the responses of fetchData arrive: both lists are replaced
refreshSucceeds ==
    /\ rendered
    /\ requests # {}
    /\ requests' = {}
    /\ products' = GetProducts(srvProducts, srvCategories)
    /\ categories' = GetCategories(srvCategories)
    /\ rendered' = FALSE
    /\ UNCHANGED <<priceVars, exportVars, settingsVars, stagingVars, columnVars, storeVars,
                   edits, serverVars, searchQuery, selectedCategory, showHidden, loading>>

\* the requests of fetchData fail: the lists stay
refreshFails ==
    /\ rendered
    /\ requests # {}
    /\ requests' = {}
    /\ UNCHANGED <<priceVars, exportVars, settingsVars, stagingVars, columnVars, storeVars,
                   edits, serverVars, viewVars, rendered>>

NextRender ==
    \/ fetchData
    \/ reorderPosted
    \/ render
    \/ refreshSucceeds
    \/ refreshFails

SpecRender == Init /\ [][NextRender]_vars

----------------------------------------------------------------------------
(* The editor: the rows with every column, the context menu, the staging   *)
(* buffer and the commit.  A write is answered before the next step of the *)
(* user, and the product list is kept in id order.                         *)

\* the products tables the editor starts from: product 1 with a cost and a
\* legacy cost (4.74 and 4.74, none and 22.56, -1 and -1) and a profit
\* (500, -250), and product 2
StagingTables ==
    { { [id |-> 1, name |-> Str(1), cost_usd |-> costs[1], profit_syp |-> profit,
         wholesale_profit_syp |-> Num(25000), carton_usd |-> costs[2],
         wholesale_carton_usd |-> Num(400), category_id |-> Whole(1),
         is_hidden |-> Whole(0)],
        [id |-> 2, name |-> Str(2), cost_usd |-> Num(100), profit_syp |-> Num(100000),
         wholesale_profit_syp |-> Num(25000), carton_usd |-> Num(100),
         wholesale_carton_usd |-> Num(0), category_id |-> Whole(1),
         is_hidden |-> Whole(0)] } :
      costs \in { <<Num(474), Num(474)>>, <<Num(0), Num(2256)>>, <<Num(-100), Num(-100)>> },
      profit \in { Num(50000), Num(-25000) } }

\* what the user types into the cost field: "0", nothing, "4,5", "x7" and a
\* run of 309 nines
CostTexts == { <<"0">>, <<>>, <<"4", ",", "5">>, <<"x", "7">>, <<Nines>> }

\* what the user types into the profit field
ProfitTexts == { <<"2", "5", "0">> }

\* the most writes the user sends: commits, hides and deletes
MaxWrites == 1

HasRow(list, id) == \E i \in 1..Len(list) : list[i].id = id
LocalRow(list, id) == list[CHOOSE i \in 1..Len(list) : list[i].id = id]
ServerRow(rows, id) == CHOOSE row \in rows : row.id = id

\* the ids of the rows of the table: the products that are not hidden
\* (showHidden is off)
EditableIds == { products[i].id : i \in { j \in 1..Len(products) :
                                            ~Truthy(products[j].is_hidden) } }

\* the step of the editor that led here when it opened a row for editing:
\* the row, the edit target before it and whether the buffer then held
\* something the user had typed
Opened(op, id) ==
    [op |-> op, id |-> id, editing |-> editingId,
     dirty |-> editValues.set /\ HasRow(products, editingId)
               /\ editValues # StagingBuffer(LocalRow(products, editingId))]

\* prev.map(p => p.id === id ? { ...p, ...updates } : p)
PatchProduct(list, id, updates) ==
    [i \in 1..Len(list) |->
        IF list[i].id = id
        THEN [f \in DOMAIN list[i] |->
                IF f \in DOMAIN updates /\ updates[f].t # "undefined"
                THEN updates[f] ELSE list[i][f]]
        ELSE list[i]]

\* JSON.stringify(updates), parsed by the server: a NaN or an infinity is null
JsonBody(updates) ==
    [f \in DOMAIN updates |->
        IF updates[f].t \in {"nan", "inf"} THEN Null ELSE updates[f]]

\* the updates of a commit: the name and the three amounts, parsed
CommitUpdates(ev) ==
    [EmptyBody EXCEPT !.name = ev.name,
                      !.cost_usd = parseNumber(TextOf(ev.cost_usd)),
                      !.profit_syp = parseNumber(TextOf(ev.profit_syp)),
                      !.wholesale_carton_usd = parseNumber(TextOf(ev.wholesale_carton_usd))]

InitStaging ==
    /\ calcProduct = [cost_usd |-> Num(0), carton_usd |-> Num(0), profit_syp |-> Num(0)]
    /\ calcRate = Num(1170000)
    /\ calcLocals = NotCalled
    /\ srvCategories = {}
    /\ srvProducts = {}
    /\ srvSeq = 0
    /\ dbProducts \in StagingTables
    /\ dbPrior = dbProducts
    /\ dbRequest = NoRequest
    /\ products = RowsById(dbProducts)
    /\ categories = <<>>
    /\ searchQuery = <<>>
    /\ selectedCategory = All
    /\ showHidden = FALSE
    /\ loading = FALSE
    /\ IdleColumns
    /\ IdleEdits
    /\ IdleExport
    /\ IdleSettings
    /\ IdleStaging
    /\ rendered = TRUE

\* a right click on a row
openContextMenu ==
    /\ \E id \in EditableIds :
        /\ contextMenu' = id
        /\ lastOp' = NoOp
    /\ UNCHANGED <<priceVars, serverVars, viewVars, columnVars, storeVars, editVars,
                   exportVars, settingsVars, editValues, rendered>>

\* a click anywhere: the listener of the window closes the menu
closeContextMenu ==
    /\ contextMenu # 0
    /\ contextMenu' = 0
    /\ lastOp' = NoOp
    /\ UNCHANGED <<priceVars, serverVars, viewVars, columnVars, storeVars, editVars,
                   exportVars, settingsVars, editValues, rendered>>

\* a double click on a row; its clicks have closed the menu
doubleClickRow ==
    /\ \E id \in EditableIds :
        /\ editValues' = StagingBuffer(LocalRow(products, id))
        /\ editingId' = id
        /\ lastOp' = Opened("doubleClickRow", id)
    /\ contextMenu' = 0
    /\ UNCHANGED <<priceVars, serverVars, viewVars, columnOrder, visibleColumns,
                   storedOrder, storedVisible, effectsPending, storeVars, editVars,
                   exportVars, settingsVars, rendered>>

\* "edit" of the context menu
menuEdit ==
    /\ contextMenu # 0
    /\ editValues' = IF HasRow(products, contextMenu)
                     THEN StagingBuffer(LocalRow(products, contextMenu))
                     ELSE editValues
    /\ editingId' = contextMenu
    /\ contextMenu' = 0
    /\ lastOp' = Opened("menuEdit", contextMenu)
    /\ UNCHANGED <<priceVars, serverVars, viewVars, columnOrder, visibleColumns,
                   storedOrder, storedVisible, effectsPending, storeVars, editVars,
                   exportVars, settingsVars, rendered>>

\* "hide" / "show" of the context menu: handleUpdateProduct with is_hidden
menuHide ==
    /\ Len(edits) < MaxWrites
    /\ contextMenu # 0
    /\ HasRow(products, contextMenu)
    /\ edits' = Append(edits, contextMenu)
    /\ LET product == LocalRow(products, contextMenu)
           updates == [EmptyBody EXCEPT !.is_hidden =
                          IF product.is_hidden = Whole(1) THEN Whole(0) ELSE Whole(1)]
       IN  /\ products' = PatchProduct(products, contextMenu, updates)
           /\ dbRequest' = [op |-> "PUT", id |-> contextMenu, body |-> JsonBody(updates)]
           /\ dbProducts' = PutProduct(dbProducts, contextMenu, JsonBody(updates))
    /\ dbPrior' = dbProducts
    /\ contextMenu' = 0
    /\ lastOp' = NoOp
    /\ UNCHANGED <<priceVars, serverVars, categories, searchQuery, selectedCategory,
                   showHidden, loading, columnVars, requests, exportVars, settingsVars,
                   editValues, rendered>>

\* "delete" of the context menu, confirmed: handleDeleteProduct
menuDelete ==
    /\ Len(edits) < MaxWrites
    /\ contextMenu # 0
    /\ edits' = Append(edits, contextMenu)
    /\ dbPrior' = dbProducts
    /\ dbRequest' = [op |-> "DELETE", id |-> contextMenu, body |-> EmptyBody]
    /\ dbProducts' = { row \in dbProducts : row.id # contextMenu }
    /\ products' = SelectSeq(products, LAMBDA p : p.id # contextMenu)
    /\ contextMenu' = 0
    /\ lastOp' = NoOp
    /\ UNCHANGED <<priceVars, serverVars, categories, searchQuery, selectedCategory,
                   showHidden, loading, columnVars, requests, exportVars, settingsVars,
                   editValues, rendered>>

\* the user types into the cost field of the row being edited
typeCost ==
    /\ editingId \in EditableIds
    /\ editValues.set
    /\ \E text \in CostTexts : editValues' = [editValues EXCEPT !.cost_usd = text]
    /\ lastOp' = NoOp
    /\ UNCHANGED <<priceVars, serverVars, viewVars, columnVars, storeVars, editVars,
                   exportVars, settingsVars, contextMenu, rendered>>

\* the user types into the profit field of the row being edited
typeProfit ==
    /\ editingId \in EditableIds
    /\ editValues.set
    /\ \E text \in ProfitTexts : editValues' = [editValues EXCEPT !.profit_syp = text]
    /\ lastOp' = NoOp
    /\ UNCHANGED <<priceVars, serverVars, viewVars, columnVars, storeVars, editVars,
                   exportVars, settingsVars, contextMenu, rendered>>

\* the save button, or Enter in a cell: the buffer is parsed and handed to
\* handleUpdateProduct, whose PUT is answered
commitSaved ==
    /\ Len(edits) < MaxWrites
    /\ editingId \in EditableIds
    /\ IF editValues.set
       THEN LET updates == CommitUpdates(editValues)
            IN  /\ products' = PatchProduct(products, editingId, updates)
                /\ dbPrior' = dbProducts
                /\ dbRequest' = [op |-> "PUT", id |-> editingId, body |-> JsonBody(updates)]
                /\ dbProducts' = PutProduct(dbProducts, editingId, JsonBody(updates))
       ELSE UNCHANGED <<products, storeVars>>
    /\ edits' = Append(edits, editingId)
    /\ editingId' = 0
    /\ editValues' = NoValues
    /\ lastOp' = NoOp
    /\ UNCHANGED <<priceVars, serverVars, categories, searchQuery, selectedCategory,
                   showHidden, loading, columnOrder, visibleColumns, storedOrder,
                   storedVisible, effectsPending, requests, exportVars, settingsVars,
                   contextMenu, rendered>>

\* the save button, the network fails: the PUT is rejected, fetchData reloads
\* the list from the server
commitRejected ==
    /\ Len(edits) < MaxWrites
    /\ editingId \in EditableIds
    /\ editValues.set
    /\ products' = RowsById(dbProducts)
    /\ edits' = Append(edits, editingId)
    /\ editingId' = 0
    /\ editValues' = NoValues
    /\ lastOp' = NoOp
    /\ UNCHANGED <<priceVars, serverVars, categories, searchQuery, selectedCategory,
                   showHidden, loading, columnOrder, visibleColumns, storedOrder,
                   storedVisible, effectsPending, storeVars, requests, exportVars,
                   settingsVars, contextMenu, rendered>>

\* the cancel button, or Escape in a cell
cancelEditing ==
    /\ editingId \in EditableIds
    /\ editingId' = 0
    /\ editValues' = NoValues
    /\ lastOp' = NoOp
    /\ UNCHANGED <<priceVars, serverVars, viewVars, columnOrder, visibleColumns,
                   storedOrder, storedVisible, effectsPending, storeVars, editVars,
                   exportVars, settingsVars, contextMenu, rendered>>

\* a fetchData that another handler ends in: the list is the server's
refreshList ==
    /\ products' = RowsById(dbProducts)
    /\ lastOp' = NoOp
    /\ UNCHANGED <<priceVars, serverVars, categories, searchQuery, selectedCategory,
                   showHidden, loading, columnVars, storeVars, editVars, exportVars,
                   settingsVars, editValues, contextMenu, rendered>>

NextStaging ==
    \/ openContextMenu
    \/ closeContextMenu
    \/ doubleClickRow
    \/ menuEdit
    \/ menuHide
    \/ menuDelete
    \/ typeCost
    \/ typeProfit
    \/ commitSaved
    \/ commitRejected
    \/ cancelEditing
    \/ refreshList

SpecStaging == InitStaging /\ [][NextStaging]_vars

----------------------------------------------------------------------------
(* The price calculator: what the specification says of it *)

Called == calcLocals.t = "called"

\* the value the specification gives a field: a non-numeric one counts as 0
StatedNumber(v) == IF v.t = "num" THEN v.n ELSE 0

\* the primary cost if nonzero, else the legacy cost if nonzero, else 0
StatedCost(product) ==
    IF StatedNumber(product.cost_usd) # 0 THEN StatedNumber(product.cost_usd)
    ELSE IF StatedNumber(product.carton_usd) # 0 THEN StatedNumber(product.carton_usd)
    ELSE 0

\* base = effectiveCost * rate + profit, in hundredths
StatedBase(product, rate) ==
    (IF StatedNumber(rate) % 100 = 0
        THEN StatedCost(product) * (StatedNumber(rate) \div 100)
        ELSE (StatedCost(product) \div 100) * StatedNumber(rate))
        + StatedNumber(product.profit_syp)

Abs(n) == IF n < 0 THEN -n ELSE n

\* n / 500 rounded to the nearest integer, halves away from zero, times 500
HalfAwayFromZero500(n) == Sign(n) * ((Abs(n) + 25000) \div 50000) * 50000

FiniteRate == calcRate.t = "num"

C2_FiniteNonNegative ==
    Called => (calcLocals.ret.t = "num" /\ calcLocals.ret.n >= 0)

\* C3 (as stated): the cost calculateSYP uses is the primary cost when
\* nonzero, else the legacy cost when nonzero, else 0, a non-numeric value
\* counting as 0, and it is never negative.
C3_EffectiveCost ==
    Called =>
        /\ calcLocals.costUsd = Num(StatedCost(calcProduct))
        /\ calcLocals.costUsd.n >= 0

\* C4 (as stated): calculateSYP returns 500 * R with R = base / 500 rounded
\* to the nearest integer, exact halves away from zero, for every base,
\* positive or negative, where base = effectiveCost * rate + profit.
C4_HalfAwayFromZero ==
    (Called /\ FiniteRate) =>
        /\ calcLocals.base = Num(StatedBase(calcProduct, calcRate))
        /\ calcLocals.ret = Num(HalfAwayFromZero500(StatedBase(calcProduct, calcRate)))

\* C4 (amended): for every finite base = effectiveCost * rate + profit,
\* calculateSYP returns the multiple of 500 nearest to base, an exact half
\* going up (towards +infinity): ret - 250 <= base < ret + 250.  For
\* base >= 0 that is the half away from zero, and cost 4.74 at rate 11700
\* with profit 500 has base 55,958 and price 56,000.
C4_HalfUp ==
    (Called /\ FiniteRate) =>
        LET base == StatedBase(calcProduct, calcRate)
            ret == calcLocals.ret
        IN  /\ calcLocals.base = Num(base)
            /\ ret.t = "num"
            /\ ret.n % 50000 = 0
            /\ ret.n - 25000 <= base
            /\ base < ret.n + 25000
            /\ (base >= 0 => ret.n = HalfAwayFromZero500(base))
            /\ (/\ calcProduct.cost_usd = Num(474)
                /\ calcProduct.profit_syp = Num(50000)
                /\ calcRate = Num(1170000))
               => (base = 5595800 /\ ret.n = 5600000)

\* C4 witness: a negative exact half, base = -250, was priced 0, not -500
C4_Witness ==
    /\ Called
    /\ FiniteRate
    /\ calcLocals.base = Num(-25000)
    /\ calcLocals.ret = Num(0)

Scenario2 ==
    /\ Called
    /\ calcProduct = [cost_usd |-> Num(0), carton_usd |-> Num(2256),
                      profit_syp |-> Num(50000)]
    /\ calcRate = Num(1170000)

\* C5 (as stated): cost_usd 0, legacy cost 22.56, profit 500, rate 11700:
\* effective cost 22.56, base 264,992, price 265,000.
C5_Scenario2AsStated ==
    Scenario2 =>
        /\ calcLocals.costUsd = Num(2256)
        /\ calcLocals.base = Num(26499200)
        /\ calcLocals.ret = Num(26500000)

\* C5 (amended): cost_usd 0, legacy cost 22.56, profit 500, rate 11700:
\* effective cost 22.56, base 22.56 * 11700 + 500 = 264,452, price 264,500.
C5_Scenario2 ==
    Scenario2 =>
        /\ calcLocals.costUsd = Num(2256)
        /\ calcLocals.base = Num(26445200)
        /\ calcLocals.ret = Num(26450000)

\* C5 witness: the scenario was priced
C5_Witness == Scenario2 /\ calcLocals.ret.t = "num"

----------------------------------------------------------------------------
(* The pipeline: what the specification says of it *)

ProductRowsOf(rows) == { i \in 1..Len(rows) : rows[i].type = "product" }
CategoryRowsOf(rows) == { i \in 1..Len(rows) : rows[i].type = "category" }

\* the filter as the specification states it
StatedPasses(p) ==
    /\ \/ Includes(ToLowerCase(p.name), ToLowerCase(searchQuery))
       \/ Includes(ToLowerCase(p.category_name), ToLowerCase(searchQuery))
    /\ (selectedCategory = All \/ selectedCategory = p.category_name)
    /\ (showHidden \/ p.is_hidden = 0)

Surviving == { k \in 1..Len(products) : StatedPasses(products[k]) }

\* C6: the flattened rows hold no category header twice, every product that
\* passes the filter exactly once and no other product row, so the product
\* rows are as many as the products that pass the filter.
C6_EachSurvivorOnce ==
    /\ \A i, j \in CategoryRowsOf(View) : View[i].name = View[j].name => i = j
    /\ \A k \in 1..Len(products) :
        Cardinality({ i \in ProductRowsOf(View) : View[i].product = products[k] })
            = IF k \in Surviving THEN 1 ELSE 0
    /\ \A i \in ProductRowsOf(View) : \E k \in 1..Len(products) : View[i].product = products[k]
    /\ Cardinality(ProductRowsOf(View)) = Cardinality(Surviving)

\* C6 witness: two headers, two product rows, hidden products not shown
C6_Witness ==
    /\ Cardinality(CategoryRowsOf(View)) = 2
    /\ Cardinality(ProductRowsOf(View)) = 2
    /\ Len(products) = 2
    /\ \E i \in CategoryRowsOf(View) : View[i].name = Uncategorized

\* C7: a product is in the view if and only if its name or its category's
\* name contains the search text, case-insensitively, and the category filter
\* is "all" or its category name, and hidden products are shown or it is not
\* hidden.
C7_FilterIff ==
    \A k \in 1..Len(products) :
        (products[k].id \in ShownIds) <=> StatedPasses(products[k])

\* C7 witness: the search text is in the category's name only, and the
\* product is shown; another product is filtered out by the text
C7_Witness ==
    /\ searchQuery = <<"B">>
    /\ \E k \in 1..Len(products) :
        /\ products[k].id \in ShownIds
        /\ ~Includes(ToLowerCase(products[k].name), ToLowerCase(searchQuery))
        /\ Includes(ToLowerCase(products[k].category_name), ToLowerCase(searchQuery))
    /\ \E k \in 1..Len(products) : products[k].id \notin ShownIds /\ products[k].is_hidden = 0

\* the header above row i
HeaderOf(rows, i) ==
    LET above == { h \in CategoryRowsOf(rows) : h < i }
    IN  CHOOSE h \in above : \A o \in above : o <= h

\* the sort position the category list gives a header
SortPosition(name) ==
    (CHOOSE c \in { categories[i] : i \in 1..Len(categories) } : c.name = name).sort_order

Listed(name) == \E i \in 1..Len(categories) : categories[i].name = name

\* C8: the headers come in ascending order of the category list's sort
\* position (the bucket of products without category name last), a header is
\* followed by all the surviving products of its category in ascending name
\* order and by nothing else, and no header is without product.
C8_HeadersAndSections ==
    /\ Len(View) > 0 => View[1].type = "category"
    /\ \A h \in CategoryRowsOf(View) : h < Len(View) /\ View[h + 1].type = "product"
    /\ \A h, g \in CategoryRowsOf(View) :
        h < g =>
            /\ View[h].name # Uncategorized
            /\ (Listed(View[h].name) /\ Listed(View[g].name))
                => SortPosition(View[h].name) <= SortPosition(View[g].name)
    /\ \A i \in ProductRowsOf(View) :
        GroupKey(View[i].product) = View[HeaderOf(View, i)].name
    /\ \A k \in Surviving :
        \E i \in ProductRowsOf(View) : View[i].product = products[k]
    /\ \A i \in ProductRowsOf(View) :
        (i < Len(View) /\ View[i + 1].type = "product")
            => LocaleCompare(View[i].product.name, View[i + 1].product.name) <= 0

\* C8 witness: the category of the larger id is sorted first, and a section
\* of two products is in name order
C8_Witness ==
    \/ /\ Len(View) = 4
       /\ View[1] = CategoryRow(<<"a", "A">>)
       /\ View[3] = CategoryRow(<<"B">>)
    \/ /\ Len(View) = 3
       /\ View[2].type = "product" /\ View[2].product.name = <<"a">> /\ View[2].product.id = 2
       /\ View[3].type = "product" /\ View[3].product.name = <<"A", "b">>

\* C9 (as stated): a product whose category cannot be resolved is never
\* dropped: GET /api/products lists it, and the view of the listed products
\* shows it under the bucket of products without category, after the real
\* categories.
C9_UnresolvedNeverDropped ==
    \A r \in srvProducts :
        (~\E c \in srvCategories : c.id = r.category_id) =>
            LET listed == GetProducts(srvProducts, srvCategories)
                rows == flattenedData(groupedData(listed, GetCategories(srvCategories),
                                                  <<>>, All, TRUE).products)
            IN  /\ \E k \in 1..Len(listed) : listed[k].id = r.id
                /\ \E i \in ProductRowsOf(rows) :
                    /\ rows[i].product.id = r.id
                    /\ rows[HeaderOf(rows, i)].name = Uncategorized
                    /\ \A h \in CategoryRowsOf(rows) : h <= HeaderOf(rows, i)

\* C10: while hidden products are not shown, no hidden product is a row of
\* the live view or of the export table, whatever the search text and the
\* category filter.
C10_HiddenExcluded ==
    ~showHidden =>
        /\ \A i \in ProductRowsOf(View) : View[i].product.is_hidden = 0
        /\ \A i \in ProductRowsOf(Export) : Export[i].product.is_hidden = 0

\* C10 witness: a hidden product is in the list, hidden products are not
\* shown, and both tables have rows
C10_Witness ==
    /\ ~showHidden
    /\ \E k \in 1..Len(products) : products[k].is_hidden = 1
    /\ ProductRowsOf(View) # {}
    /\ ProductRowsOf(Export) # {}

\* C11 (as stated): the headers and product rows of the export table are
\* exactly the headers and product rows of the live view of the same product
\* list, category list, search text, category filter and show-hidden flag, in
\* the same order.
C11_ExportEqualsView == Export = View

----------------------------------------------------------------------------
(* The column registry: what the specification says of it *)

\* how often id is in list
Count(list, id) == Cardinality({ i \in 1..Len(list) : list[i] = id })

KnownIds == { DEFAULT_COLUMNS[i] : i \in 1..Len(DEFAULT_COLUMNS) }

\* the page has just been loaded from a persisted list
LoadedFromList(stored) == effectsPending /\ stored.t = "json"

\* C12: an order loaded from a persisted list keeps the persisted entries in
\* their positions, drops none of them, and holds every known id the list
\* lacks exactly once, behind them.
C12_MissingAppended ==
    LoadedFromList(storedOrder) =>
        LET persisted == storedOrder.v
            missing == { id \in KnownIds : ~InList(persisted, id) }
        IN  /\ Len(columnOrder) = Len(persisted) + Cardinality(missing)
            /\ SubSeq(columnOrder, 1, Len(persisted)) = persisted
            /\ \A id \in missing :
                /\ Count(columnOrder, id) = 1
                /\ \E i \in (Len(persisted) + 1)..Len(columnOrder) : columnOrder[i] = id

\* C12 witness: the persisted order of two columns was loaded, and the six
\* columns it lacks follow them
C12_Witness ==
    /\ effectsPending
    /\ storedOrder = Json(<<"syp_final", "name">>)
    /\ columnOrder = <<"syp_final", "name", "cost_usd", "profit_syp",
                       "wholesale_carton_usd", "lsg", "case_usd", "wholesale_case_usd">>

\* C13: a persisted visible list that is empty or without "name" loads as
\* the default visible subset, which has "name".
C13_CorruptVisibleFallsBack ==
    (LoadedFromList(storedVisible)
        /\ (Len(storedVisible.v) = 0 \/ ~InList(storedVisible.v, "name")))
    => (visibleColumns = DEFAULT_VISIBLE /\ InList(visibleColumns, "name"))

\* C13 witness: the empty list was loaded, or a list without "name"
C13_Witness ==
    /\ effectsPending
    /\ storedVisible \in {Json(<<>>), Json(<<"syp_final", "cost_usd">>)}
    /\ visibleColumns = DEFAULT_VISIBLE

\* C14 (as stated): in every reachable state the visible list is not empty
\* and has "name", and so has the rendered table.
C14_NameAlwaysVisible ==
    /\ Len(visibleColumns) > 0
    /\ InList(visibleColumns, "name")
    /\ InList(DisplayedColumns, "name")

\* C15: the displayed columns are the column order restricted to the visible
\* ids, in the order's order, followed by "actions" exactly when a row is
\* being edited, whether or not "actions" is a visible id.
C15_DisplayedColumns ==
    LET restricted == SelectSeq(columnOrder, LAMBDA id : InList(visibleColumns, id))
    IN  /\ DisplayedColumns =
            IF editingId # 0 THEN Append(restricted, "actions") ELSE restricted
        /\ InList(DisplayedColumns, "actions") <=> (editingId # 0)

\* C15 witness: a row is being edited, "actions" is not a visible id and is
\* the last displayed column, behind a reordered and restricted order
C15_Witness ==
    /\ editingId # 0
    /\ ~InList(visibleColumns, "actions")
    /\ DisplayedColumns[Len(DisplayedColumns)] = "actions"
    /\ columnOrder[1] # "name"
    /\ Len(DisplayedColumns) < Len(columnOrder)
    /\ Len(DisplayedColumns) > 2

\* C16 (as stated): a confirmed reset leaves the default order, the default
\* visible subset, and no persisted value for either key.
C16_ResetClearsPersisted ==
    [][resetTableSettings =>
        /\ columnOrder' = DEFAULT_COLUMNS
        /\ visibleColumns' = DEFAULT_VISIBLE
        /\ storedOrder' = Absent
        /\ storedVisible' = Absent]_vars

----------------------------------------------------------------------------
(* The write routes: what the specification says of them *)

RowOf(rows, id) == CHOOSE row \in rows : row.id = id

Mentioned(v) == v.t # "undefined"

PatchedFields == {"name", "cost_usd", "profit_syp", "wholesale_profit_syp",
                  "wholesale_carton_usd", "category_id", "is_hidden"}

\* C17 (as stated): after a PUT every field of the row that the request does
\* not mention has its prior value, carton_usd included when the request has
\* neither cost_usd nor carton_usd, and no other row has changed.
C17_PatchSemantics ==
    dbRequest.op = "PUT" =>
        /\ { row.id : row \in dbProducts } = { row.id : row \in dbPrior }
        /\ \A prior \in dbPrior :
            LET row == RowOf(dbProducts, prior.id)
            IN  IF prior.id # dbRequest.id THEN row = prior
                ELSE /\ \A f \in PatchedFields :
                          ~Mentioned(dbRequest.body[f]) => row[f] = prior[f]
                     /\ (~Mentioned(dbRequest.body.cost_usd)
                            /\ ~Mentioned(dbRequest.body.carton_usd))
                        => row.carton_usd = prior.carton_usd

Supplied(v) == v.t = "num"

\* the value the specification gives a numeric field of a created record
StatedDefault(v, default) == IF Supplied(v) THEN v ELSE default

\* C18 (as stated): the created record has the supplied value of every
\* numeric field and the default (cost 0, profit 500, wholesale margin 250,
\* wholesale cost 0) where none is supplied, but its cost is the wholesale
\* cost when the cost is absent or zero and a wholesale cost is supplied.
C18_CreateDefaults ==
    dbRequest.op = "POST" =>
        LET body == dbRequest.body
            row == RowOf(dbProducts, dbRequest.id)
        IN  /\ row.profit_syp = StatedDefault(body.profit_syp, Num(50000))
            /\ row.wholesale_profit_syp = StatedDefault(body.wholesale_profit_syp, Num(25000))
            /\ row.wholesale_carton_usd = StatedDefault(body.wholesale_carton_usd, Num(0))
            /\ row.cost_usd =
                IF Supplied(body.cost_usd) /\ body.cost_usd.n # 0 THEN body.cost_usd
                ELSE StatedDefault(body.wholesale_carton_usd, Num(0))

----------------------------------------------------------------------------
(* Edit commits: what the specification says of them *)

\* every local row is the server's row
LocalMatchesServer ==
    { products[i] : i \in 1..Len(products) } = JoinedRows(srvProducts, srvCategories)

\* every request has completed
Quiescent == requests = {}

\* C19 (as stated): when the write of an edit commit fails, by a rejected
\* request or by an error answer, the list is reloaded, and once the reload
\* has completed the local list is the server's list.
C19_FailedWriteReloads ==
    (Quiescent /\ Len(edits) = 1 /\ edits[1].write = "failed") =>
        /\ edits[1].reload # "none"
        /\ edits[1].reload = "done" => LocalMatchesServer

\* C20 (as stated): two edits of different rows committed in quick
\* succession: once every request has completed (no reload having failed),
\* every local row is the server's row, under every interleaving.
C20_IndependentEdits ==
    (/\ Quiescent
     /\ Len(edits) = 2
     /\ edits[1].id # edits[2].id
     /\ \A k \in 1..2 : edits[k].write # "pending" /\ edits[k].reload # "failed")
    => LocalMatchesServer

----------------------------------------------------------------------------
(* The exports: what the specification says of them *)

\* the pages of the last PDF, and the image they were cut from
PdfSaved == pdfPages # <<>>

\* page i shows the millimetres [PageTop(i), PageTop(i) + pdfPageHeight) of
\* the image, which is canvas.height * pdfWidth / canvas.width millimetres high
PageTop(i) == -pdfPages[i]

C24_OneExportAtATime ==
    /\ Len(exporting) <= 1
    /\ isExporting <=> (Len(exporting) = 1)

\* an export is in flight after an earlier one has ended
C24_Witness == isExporting /\ exporting = <<"image">> /\ PdfSaved

----------------------------------------------------------------------------
(* The settings: what the specification says of them *)

\* C25: after a load or a refresh, a local rate that exists is the rate of
\* the prices whatever the server returned; a load leaves an existing local
\* rate alone, and where it writes the item there was none, and the item
\* and the rate of the prices are the server's rate.
C25_LocalRatePrecedes ==
    [][(fetchDataSucceeds \/ updateRateRefreshed) =>
          /\ ItemTruthy(storedRate') => calcRate' = StringToNumber(storedRate'.s)
          /\ (fetchDataSucceeds /\ ItemTruthy(storedRate)) => storedRate' = storedRate
          /\ (fetchDataSucceeds /\ storedRate' # storedRate) =>
                /\ ~ItemTruthy(storedRate)
                /\ calcRate' = GetGlobalRate(srvRate)
                /\ storedRate' = TextOf(NumberToString(GetGlobalRate(srvRate)))]_vars

\* the lists have been loaded, and the rate is the local one where the
\* server holds another
C25_Witness ==
    /\ ~loading
    /\ products # <<>>
    /\ ItemTruthy(storedRate)
    /\ calcRate.t = "num"
    /\ calcRate = StringToNumber(storedRate.s)
    /\ Truthy(GetGlobalRate(srvRate))
    /\ GetGlobalRate(srvRate) # calcRate

\* a persisted rate that is absent, empty or no number
RateUnusable(item) == ~ItemTruthy(item) \/ StringToNumber(item.s).t # "num"

\* C26: a page that has just been loaded has, for each setting, the value
\* of its persisted item, and the default where the item is absent or
\* malformed: rate 11700, the default order, the default visible columns,
\* font size 14.
C26_SettingsLoadDefaults ==
    effectsPending =>
        /\ calcRate = IF RateUnusable(storedRate) THEN Num(1170000)
                      ELSE StringToNumber(storedRate.s)
        /\ storedOrder.t # "json" => columnOrder = DEFAULT_COLUMNS
        /\ storedVisible.t # "json" => visibleColumns = DEFAULT_VISIBLE
        /\ fontSize = 14

----------------------------------------------------------------------------
(* Renders: what the specification says of them *)

\* C27: a render, which computes groupedData and the rows of the export
\* table, leaves the product list and the category list of the state as
\* they were: the same elements in the same order.
C27_RenderKeepsLists ==
    [][render => (products' = products /\ categories' = categories)]_vars

----------------------------------------------------------------------------
(* The editor: what the specification says of it *)

\* the rows of the list that are in edit mode
RowsInEditMode == { i \in 1..Len(products) : products[i].id = editingId }

\* the text of a number as the specification of the buffer has it: the
\* digits of the whole part and, where there is one, of the fraction
StatedText(v) == NumberToString(v)

\* the cost a row is opened with: the cost, or the legacy cost where the
\* cost is 0 or missing, or 0
StatedOpeningCost(row) ==
    IF row.cost_usd.t \in {"num", "inf"} /\ row.cost_usd.n # 0 THEN row.cost_usd
    ELSE IF row.carton_usd.t \in {"num", "inf"} /\ row.carton_usd.n # 0
    THEN row.carton_usd
    ELSE Num(0)

\* C21: at most one row is in edit mode, and a step that opens a row for
\* editing makes it the edit target and fills the buffer with its values,
\* whatever was edited before, and writes nothing: the list and the table of
\* the server stay as they were.
C21_OpenReplacesEdit ==
    [][/\ Cardinality(RowsInEditMode') <= 1
       /\ (doubleClickRow \/ menuEdit) =>
            /\ HasRow(products, editingId')
            /\ Cardinality(RowsInEditMode') = 1
            /\ LET row == LocalRow(products, editingId')
               IN  /\ editValues'.set
                   /\ editValues'.name = row.name
                   /\ editValues'.cost_usd = StatedText(StatedOpeningCost(row))
                   /\ editValues'.profit_syp = StatedText(row.profit_syp)
                   /\ editValues'.wholesale_carton_usd = StatedText(row.wholesale_carton_usd)
            /\ UNCHANGED <<products, dbProducts, dbRequest, requests, edits>>]_vars

\* a row has been opened while another row was being edited with a buffer
\* the user had typed into
C21_Witness ==
    /\ lastOp.op \in {"doubleClickRow", "menuEdit"}
    /\ lastOp.editing # 0
    /\ lastOp.editing # lastOp.id
    /\ lastOp.dirty
    /\ editingId = lastOp.id
    /\ Len(edits) = 0

\* the amounts a commit hands on
CommittedAmounts(updates) ==
    { updates.cost_usd, updates.profit_syp, updates.wholesale_carton_usd }

\* C22: a commit parses every amount of the buffer to a finite number that
\* is not negative, an empty text to 0, forwards the update and leaves edit
\* mode.
C22_CommitParses ==
    [][commitSaved =>
          /\ \A amount \in CommittedAmounts(dbRequest'.body) \cup
                             CommittedAmounts(LocalRow(products', editingId)) :
                 amount.t = "num" /\ amount.n >= 0
          /\ editValues.cost_usd = <<>> => dbRequest'.body.cost_usd = Num(0)
          /\ dbRequest'.op = "PUT" /\ dbRequest'.id = editingId
          /\ editingId' = 0
          /\ ~editValues'.set]_vars

\* C28: the buffer is set exactly while an edit target is set, and the edit
\* target is a product of the list.
C28_BufferIffTarget ==
    /\ editValues.set <=> editingId # 0
    /\ editingId # 0 => HasRow(products, editingId)

\* the final price of a record
FinalPrice(row) == calculateSYP(row, calcRate).ret

\* C29: a commit of the buffer as the row was opened with leaves the name,
\* the profit, the wholesale cost and the final price of the local record
\* as they were.
C29_UntouchedCommitIsNoOp ==
    [][(commitSaved /\ editValues = StagingBuffer(LocalRow(products, editingId))) =>
          LET before == LocalRow(products, editingId)
              after == LocalRow(products', editingId)
          IN  /\ after.name = before.name
              /\ after.profit_syp = before.profit_syp
              /\ after.wholesale_carton_usd = before.wholesale_carton_usd
              /\ FinalPrice(after) = FinalPrice(before)]_vars

\* C30: after a commit whose write succeeded, the final price of the local
\* record is the final price of the row the server stores.
C30_LocalPriceIsServerPrice ==
    [][commitSaved =>
          FinalPrice(LocalRow(products', editingId))
              = FinalPrice(ServerRow(dbProducts', editingId))]_vars

====
